---- MODULE Spec2Model ----
\* Verification model of the data-snapshot capture engine (snapshotCapture.ts):
\* the Semaphore gate, the progress counter, the recursive DAP walker, the
\* fast path and the captureVariable orchestrator.
\*
\* JavaScript runs one task at a time: an action of the capture model is one
\* task (a call, a response, a timer, a click) together with every promise
\* continuation it triggers.
EXTENDS Integers, Sequences, FiniteSets, TLC

\* ---------------------------------------------------------------- bounds

\* Number of run(task) calls made on the stand-alone Semaphore.
MaxCallers == 4
\* Largest limit the stand-alone Semaphore is constructed with.
MaxLimit == 2
\* Limit of the gate created by captureVariable. The source sets 20
\* (DAP_CONCURRENCY); the model scales it down so that the bounded object
\* graphs below saturate the gate. The Semaphore is parametric in its limit.
DAP_CONCURRENCY == 2
\* The data-snapshot.maxDepth setting ranges over 0..MaxDepthSetting.
MaxDepthSetting == 2
\* The stand-alone counter is driven until total reaches MaxTotal and
\* completed reaches MaxCompleted.
MaxTotal == 4
MaxCompleted == 4
\* The snapshots directory receives up to MaxFiles files.
MaxFiles == 3
\* applyInlineStub succeeds up to MaxStubs times on one source file.
MaxStubs == 4
\* parsePrimitiveValue is applied to texts of up to MaxRawLen characters.
MaxRawLen == 3

VARIABLES
    sem,        \* the Semaphore: [limit, active, queue]
    cst,        \* stand-alone gate: state of each run(task) call
    jobs,       \* stand-alone gate: callers whose acquire() promise is resolved
                \* and whose continuation (calling fn) is a pending microtask
    started,    \* stand-alone gate: callers in the order their task was started
    pc,         \* captureVariable: where the call is
    expression, \* captureVariable: the trimmed selection
    maxDepth,   \* captureVariable: the maxDepth setting read
    cancelled,  \* token.isCancellationRequested
    hung,       \* the pending setup/evaluate request will never be answered
    reqs,       \* threads/stackTrace/evaluate requests sent, in order
    frame,      \* topFrame
    fast,       \* what fastSerialize returned (NoVal before it returned)
    fastIn,     \* how the fast-path evaluate ended: its result and the temp file
    heap,       \* index of the debuggee's object graph (0: not yet observed)
    walk,       \* slow path: path of a serializeVariable call -> its state
    counter,    \* SerializeCounter: [total, completed, lastPct]
    errors,     \* messages shown with showErrorMessage, in order
    progress,   \* last message given to the progress sink
    files,      \* snapshot files written, in order
    emitted,    \* SerializeCounter: percentages given to the sink, in order
    dir,        \* .snapshots/snapshots: the files in it, in order of creation
    listing,    \* what SnapshotTreeProvider.getChildren last returned
    doc,        \* inline stubs: the lines of the source file
    orig,       \* inline stubs: its lines before the first stub was applied
    stubs,      \* inline stubs: successful applyInlineStub calls so far
    reverted,   \* inline stubs: removeAllInlineStubs has run
    answered,   \* slow path: nodes whose `variables` request settled, in order
    prim        \* parsePrimitiveValue alone: its last call [raw, type, out]

semVars == <<sem, cst, jobs, started>>
capVars == <<pc, expression, maxDepth, cancelled, hung, reqs, frame, fast, fastIn,
             heap, walk, counter, errors, progress, files, emitted>>
vars == <<sem, cst, jobs, started, pc, expression, maxDepth, cancelled, hung,
          reqs, frame, fast, fastIn, heap, walk, counter, errors, progress, files,
          emitted, dir, listing, doc, orig, stubs, reverted, answered, prim>>
\* State of the components around captureVariable.
stubVars == <<doc, orig, stubs, reverted>>
histVars == <<answered, prim>>
sideVars == <<dir, listing, stubVars, histVars>>

\* ---------------------------------------------------------------- text

\* A JavaScript string is a sequence of one-character strings.
IsDigit(c) == c \in {"0", "1", "2", "3", "4", "5", "6", "7", "8", "9"}
IsSpace(c) == c \in {" ", "\n", "\t"}

\* /^\d+$/.test(t)
AllDigits(t) == Len(t) > 0 /\ \A i \in 1..Len(t) : IsDigit(t[i])

\* t.startsWith(pre), t.endsWith(suf), t.includes(sub), t.slice(1, -1)
StartsWith(t, pre) == Len(t) >= Len(pre) /\ SubSeq(t, 1, Len(pre)) = pre
EndsWith(t, suf) ==
    Len(t) >= Len(suf) /\ SubSeq(t, Len(t) - Len(suf) + 1, Len(t)) = suf
Includes(t, sub) ==
    \E i \in 1..(Len(t) + 1) :
        i + Len(sub) - 1 <= Len(t) /\ SubSeq(t, i, i + Len(sub) - 1) = sub
SliceInner(t) == SubSeq(t, 2, Len(t) - 1)

\* t.trim()
RECURSIVE TrimStart(_)
TrimStart(t) ==
    IF t # <<>> /\ IsSpace(Head(t)) THEN TrimStart(Tail(t)) ELSE t
RECURSIVE TrimEnd(_)
TrimEnd(t) ==
    IF t # <<>> /\ IsSpace(t[Len(t)])
    THEN TrimEnd(SubSeq(t, 1, Len(t) - 1)) ELSE t
Trim(t) == TrimEnd(TrimStart(t))

\* ---------------------------------------------------------------- values

\* JSON-safe values as tagged records.
NoVal == [k |-> "none"]
Undef == [k |-> "undefined"]
Null == [k |-> "null"]
Bool(b) == [k |-> "bool", b |-> b]
\* a number m / 10^e, kept normalised (m not divisible by 10 unless e = 0)
Num(m, e) == [k |-> "num", m |-> m, e |-> e]
Infinite(neg) == [k |-> "inf", neg |-> neg]
Str(t) == [k |-> "str", s |-> t]
SeqV(items) == [k |-> "seq", items |-> items]
\* at: a function from property name to value
MapV(at) == [k |-> "map", at |-> at]

\* Object.fromEntries(entries) for entries <<[name, val], ...>>: a later
\* entry of a name replaces an earlier one.
RECURSIVE fromEntries(_)
fromEntries(entries) ==
    IF entries = <<>> THEN <<>>
    ELSE LET n == Len(entries)
         IN  (entries[n].name :> entries[n].val)
                @@ fromEntries(SubSeq(entries, 1, n - 1))

\* ------------------------------------------------------ parsePrimitiveValue

T_undefined == <<"u", "n", "d", "e", "f", "i", "n", "e", "d">>
T_null == <<"n", "u", "l", "l">>
T_true == <<"t", "r", "u", "e">>
T_false == <<"f", "a", "l", "s", "e">>
T_number == <<"n", "u", "m", "b", "e", "r">>
T_Infinity == <<"I", "n", "f", "i", "n", "i", "t", "y">>

DigitVal(c) ==
    CASE c = "0" -> 0 [] c = "1" -> 1 [] c = "2" -> 2 [] c = "3" -> 3
      [] c = "4" -> 4 [] c = "5" -> 5 [] c = "6" -> 6 [] c = "7" -> 7
      [] c = "8" -> 8 [] c = "9" -> 9

RECURSIVE DigitsToNat(_)
DigitsToNat(t) ==
    IF t = <<>> THEN 0
    ELSE DigitsToNat(SubSeq(t, 1, Len(t) - 1)) * 10 + DigitVal(t[Len(t)])

RECURSIVE Pow10(_)
Pow10(n) == IF n = 0 THEN 1 ELSE 10 * Pow10(n - 1)

RECURSIVE Normalise(_, _)
Normalise(m, e) ==
    IF e > 0 /\ m % 10 = 0 THEN Normalise(m \div 10, e - 1) ELSE Num(m, e)

DigitsOrEmpty(t) == \A i \in 1..Len(t) : IsDigit(t[i])

\* /^-?\d+(\.\d+)?$/.test(t)
MatchesDecimal(t) ==
    LET body == IF t # <<>> /\ Head(t) = "-" THEN Tail(t) ELSE t
    IN  \/ AllDigits(body)
        \/ \E i \in 1..Len(body) :
              /\ body[i] = "."
              /\ AllDigits(SubSeq(body, 1, i - 1))
              /\ AllDigits(SubSeq(body, i + 1, Len(body)))

\* Number(raw): <<>> for NaN, else <<value>>. Decimal literals with optional
\* sign, "Infinity" and blank text are modelled; texts with an exponent or a
\* radix prefix are outside the inputs the model draws.
ToNumber(raw) ==
    LET t    == Trim(raw)
        sgn  == t # <<>> /\ Head(t) \in {"+", "-"}
        neg  == t # <<>> /\ Head(t) = "-"
        body == IF sgn THEN Tail(t) ELSE t
        dots == {i \in 1..Len(body) : body[i] = "."}
        Val(int, frac) ==
            Normalise((IF neg THEN -1 ELSE 1)
                        * (DigitsToNat(int) * Pow10(Len(frac)) + DigitsToNat(frac)),
                      Len(frac))
    IN  IF t = <<>> THEN <<Num(0, 0)>>
        ELSE IF body = T_Infinity THEN <<Infinite(neg)>>
        ELSE IF AllDigits(body) THEN <<Val(body, <<>>)>>
        ELSE IF Cardinality(dots) = 1
        THEN LET i    == CHOOSE j \in dots : TRUE
                 int  == SubSeq(body, 1, i - 1)
                 frac == SubSeq(body, i + 1, Len(body))
             IN  IF DigitsOrEmpty(int) /\ DigitsOrEmpty(frac)
                    /\ (int # <<>> \/ frac # <<>>)
                 THEN <<Val(int, frac)>>
                 ELSE <<>>
        ELSE <<>>

\* parsePrimitiveValue(raw, type); type is <<>> when absent, else <<text>>.
parsePrimitiveValue(raw, type) ==
    LET numeric == type = <<T_number>> \/ (type = <<>> /\ MatchesDecimal(raw))
        n == ToNumber(raw)
    IN  IF raw = T_undefined THEN Undef
        ELSE IF raw = T_null THEN Null
        ELSE IF raw = T_true THEN Bool(TRUE)
        ELSE IF raw = T_false THEN Bool(FALSE)
        ELSE IF numeric /\ n # <<>> THEN n[1]
        ELSE IF StartsWith(raw, <<"\"">>) /\ EndsWith(raw, <<"\"">>)
        THEN Str(SliceInner(raw))
        ELSE IF StartsWith(raw, <<"'">>) /\ EndsWith(raw, <<"'">>)
        THEN Str(SliceInner(raw))
        ELSE Str(raw)

\* --------------------------------------------------------- SerializeCounter

\* new SerializeCounter(progress)
NewCounter == [total |-> 0, completed |-> 0, lastPct |-> -1]

Min(a, b) == IF a < b THEN a ELSE b

\* A broken percentage without the cap at 99.
PctUncapped(c) == (c.completed * 100) \div c.total

\* Math.min(99, Math.floor((completed / total) * 100)). The double quotient
\* times 100 floors to the integer quotient for every total below 50 (the
\* first pair that differs is 29 / 50), which covers all counts reached here.
Pct(c) == Min(99, (c.completed * 100) \div c.total)

\* SerializeCounter.report: [counter, emit], emit being <<>> or <<pct>>.
report(c) ==
    IF c.total = 0 THEN [counter |-> c, emit |-> <<>>]
    ELSE IF Pct(c) = c.lastPct THEN [counter |-> c, emit |-> <<>>]
    ELSE [counter |-> [c EXCEPT !.lastPct = Pct(c)], emit |-> <<Pct(c)>>]

addItems(c, n) == report([c EXCEPT !.total = @ + n])
completeItem(c) == report([c EXCEPT !.completed = @ + 1])

\* ---------------------------------------------------------------- Semaphore

\* new Semaphore(limit)
NewSemaphore(limit) == [limit |-> limit, active |-> 0, queue |-> <<>>]

\* A broken acquire that admits every caller without looking at the limit.
acquireNoLimit(s, id) ==
    [sem |-> [s EXCEPT !.active = @ + 1], resolved |-> TRUE]

\* Semaphore.acquire by caller id: the returned promise is already resolved
\* when a slot is free, otherwise the caller's resolve callback is queued.
acquire(s, id) ==
    IF s.active < s.limit
    THEN [sem |-> [s EXCEPT !.active = @ + 1], resolved |-> TRUE]
    ELSE [sem |-> [s EXCEPT !.queue = Append(@, id)], resolved |-> FALSE]

\* A broken release that hands the slot to the newest waiter.
releaseNewest(s) ==
    LET s1 == [s EXCEPT !.active = @ - 1]
        n  == Len(s1.queue)
    IN  IF n > 0
        THEN [sem  |-> [s1 EXCEPT !.queue = SubSeq(@, 1, n - 1), !.active = @ + 1],
              next |-> <<s1.queue[n]>>]
        ELSE [sem |-> s1, next |-> <<>>]

\* A broken release that frees the slot without waking the oldest waiter.
releaseNoWake(s) ==
    [sem |-> [s EXCEPT !.active = @ - 1], next |-> <<>>]

\* A broken release that hands the slot over without counting it again.
releaseUncounted(s) ==
    LET s1 == [s EXCEPT !.active = @ - 1]
    IN  IF s1.queue # <<>>
        THEN [sem  |-> [s1 EXCEPT !.queue = Tail(@)],
              next |-> <<Head(s1.queue)>>]
        ELSE [sem |-> s1, next |-> <<>>]

\* Semaphore.release: active--, then the oldest queued resolve callback (if
\* any) is shifted off the queue, active++ and the callback is called.
\* next is <<>> or the one caller whose acquire() promise got resolved.
release(s) ==
    LET s1 == [s EXCEPT !.active = @ - 1]
    IN  IF s1.queue # <<>>
        THEN [sem  |-> [s1 EXCEPT !.queue = Tail(@), !.active = @ + 1],
              next |-> <<Head(s1.queue)>>]
        ELSE [sem |-> s1, next |-> <<>>]

\* ------------------------------------------------- captureVariable: state

\* No Semaphore exists before captureVariable creates one.
NoSemaphore == [limit |-> 0, active |-> 0, queue |-> <<>>]
NoFrame == [id |-> 0, name |-> <<>>, path |-> <<>>, line |-> <<>>]

\* The fast-path evaluate has not ended.
NoFastIn == [kind |-> "none"]

\* parsePrimitiveValue has not been called on its own.
NoPrim == [raw |-> <<>>, type |-> <<>>, out |-> NoVal]

\* The state before captureVariable is called.
CapIdle ==
    /\ pc = "idle"
    /\ expression = <<>>
    /\ maxDepth = 0
    /\ cancelled = FALSE
    /\ hung = FALSE
    /\ reqs = <<>>
    /\ frame = NoFrame
    /\ fast = NoVal
    /\ fastIn = NoFastIn
    /\ heap = 0
    /\ walk = <<>>
    /\ counter = NewCounter
    /\ errors = <<>>
    /\ progress = <<>>
    /\ files = <<>>
    /\ emitted = <<>>

\* No snapshot has been written or listed; no source file is open.
SideIdle ==
    /\ dir = <<>>
    /\ listing = <<>>
    /\ doc = <<>>
    /\ orig = <<>>
    /\ stubs = 0
    /\ reverted = FALSE
    /\ answered = <<>>
    /\ prim = NoPrim

\* ------------------------------------------------- the debuggee's objects

T_Object == <<"O", "b", "j", "e", "c", "t">>
T_Array == <<"A", "r", "r", "a", "y">>
T_string == <<"s", "t", "r", "i", "n", "g">>
T_object == <<"o", "b", "j", "e", "c", "t">>
T_cancelled == <<"[", "c", "a", "n", "c", "e", "l", "l", "e", "d", "]">>
T_unresolved == <<"[", "u", "n", "r", "e", "s", "o", "l", "v", "e", "d", ":", " ">>
T_Prototype ==
    <<"[", "[", "P", "r", "o", "t", "o", "t", "y", "p", "e", "]", "]">>
T_braces == <<"{", "}">>

\* DapVariable
DapVar(name, value, type, ref) ==
    [name |-> name, value |-> value, type |-> type, variablesReference |-> ref]

\* A primitive of type number, an object with a type tag, an object without.
NumVar(name, digit) == DapVar(name, <<digit>>, <<T_number>>, 0)
ObjVar(name, ref) == DapVar(name, T_braces, <<T_Object>>, ref)
BareVar(name, ref) == DapVar(name, T_braces, <<>>, ref)

\* An object graph of the paused debuggee: what `evaluate` (context hover)
\* answers for the expression, and what `variables` answers per reference.
\* 1: a number.
HeapPrimitive ==
    [root |-> [result |-> <<"4", "2">>, type |-> <<T_number>>, variablesReference |-> 0],
     kids |-> <<>>]
\* 2: an array of four objects, wider than the gate.
HeapWide ==
    [root |-> [result |-> T_braces, type |-> <<T_Array>>, variablesReference |-> 1],
     kids |-> << <<ObjVar(<<"0">>, 2), ObjVar(<<"1">>, 3),
                   ObjVar(<<"2">>, 4), ObjVar(<<"3">>, 5)>>,
                 <<NumVar(<<"n">>, "1")>>, <<NumVar(<<"n">>, "2")>>,
                 <<NumVar(<<"n">>, "3")>>, <<NumVar(<<"n">>, "4")>> >>]
\* 3: objects nested three levels deep: {a: {b: {c: 1}}}.
HeapChain ==
    [root |-> [result |-> T_braces, type |-> <<T_Object>>, variablesReference |-> 1],
     kids |-> << <<ObjVar(<<"a">>, 2)>>, <<BareVar(<<"b">>, 3)>>,
                 <<NumVar(<<"c">>, "1")>> >>]
\* 4: mixed child names, an internal slot and an empty object.
HeapMixed ==
    [root |-> [result |-> T_braces, type |-> <<T_Object>>, variablesReference |-> 1],
     kids |-> << <<NumVar(<<"0">>, "7"),
                   DapVar(<<"f", "o", "o">>, <<"'", "h", "i", "'">>, <<T_string>>, 0),
                   ObjVar(T_Prototype, 3),
                   ObjVar(<<"e">>, 2)>>,
                 <<>>,
                 <<NumVar(<<"x">>, "0")>> >>]
\* 5: an object that refers to itself.
HeapCycle ==
    [root |-> [result |-> T_braces, type |-> <<T_Object>>, variablesReference |-> 1],
     kids |-> << <<ObjVar(<<"s", "e", "l", "f">>, 1), NumVar(<<"n">>, "5")>> >>]

Heaps == <<HeapPrimitive, HeapWide, HeapChain, HeapMixed, HeapCycle>>
HeapIds == 1..Len(Heaps)

\* response.variables of a `variables` request for reference ref
Children(h, ref) == Heaps[h].kids[ref]

\* ---------------------------------------------------------------- the walk

\* One serializeVariable call, named by its path from the root call.
\*   st: "queued"   waiting in the Semaphore's queue
\*       "inflight" holds a slot; its `variables` request is sent, unanswered
\*       "lost"     as inflight, and the request will never be answered
\*       "await"    children spawned; waiting in Promise.all
\*       "ready"    promise resolved with res; the awaiting code has not run
\*       "done"     resolved, and the code awaiting it has run
\*       "failed"   promise rejected
\*   sent: a `variables` request was sent for this node
\*   n, arr: number of children recursed into; array-like
Node(var, depth, st, res, sent) ==
    [var |-> var, depth |-> depth, st |-> st, res |-> res, sent |-> sent,
     n |-> 0, arr |-> FALSE]

Parent(p) == SubSeq(p, 1, Len(p) - 1)
Kid(p, i) == p \o <<i>>

\* `[unresolved: ${variable.type ?? "object"}]`
Unresolved(type) ==
    Str(T_unresolved \o (IF type = <<>> THEN T_object ELSE type[1]) \o <<"]">>)

ProgressOf(c) ==
    [msg |-> "Serializing", completed |-> c.completed, total |-> c.total,
     pct |-> c.lastPct]

\* The walk threads [walk, sem, counter, progress, emitted] through its
\* steps.
Counted(S, r) ==
    [S EXCEPT !.counter = r.counter,
              !.emitted = @ \o r.emit,
              !.progress = IF r.emit = <<>> THEN @ ELSE ProgressOf(r.counter)]

\* A broken depth test that lets the walk go one level too deep.
AtLeafOffByOne(var, depth) ==
    var.variablesReference = 0 \/ depth > maxDepth

\* variable.variablesReference === 0 || depth >= maxDepth
AtLeaf(var, depth) ==
    var.variablesReference = 0 \/ depth >= maxDepth

\* A broken call that never looks at the cancellation token.
serializeVariableNoToken(S, p, var, depth) ==
    IF AtLeaf(var, depth)
    THEN [S EXCEPT !.walk = @ @@ (p :>
            Node(var, depth, "ready",
                 IF var.variablesReference # 0
                 THEN Unresolved(var.type)
                 ELSE parsePrimitiveValue(var.value, var.type),
                 FALSE))]
    ELSE LET r == acquire(S.sem, p)
         IN  [S EXCEPT !.sem = r.sem,
                       !.walk = @ @@ (p :>
                          Node(var, depth,
                               IF r.resolved THEN "inflight" ELSE "queued",
                               NoVal, r.resolved))]

\* serializeVariable up to its first await (lines 140-158): the call returns
\* a sentinel or a decoded primitive at once, or asks the gate for a slot.
serializeVariable(S, p, var, depth) ==
    IF cancelled
    THEN [S EXCEPT !.walk = @ @@ (p :> Node(var, depth, "ready", Str(T_cancelled), FALSE))]
    ELSE IF AtLeaf(var, depth)
    THEN [S EXCEPT !.walk = @ @@ (p :>
            Node(var, depth, "ready",
                 IF var.variablesReference # 0
                 THEN Unresolved(var.type)
                 ELSE parsePrimitiveValue(var.value, var.type),
                 FALSE))]
    ELSE LET r == acquire(S.sem, p)
         IN  [S EXCEPT !.sem = r.sem,
                       !.walk = @ @@ (p :>
                          Node(var, depth,
                               IF r.resolved THEN "inflight" ELSE "queued",
                               NoVal, r.resolved))]

\* children.map(async (child) => serializeVariable(child, depth + 1, ...)):
\* the calls are made in child order.
RECURSIVE SpawnKids(_, _, _, _)
\* A broken recursion that passes its own depth on to the children.
RECURSIVE SpawnKidsSameDepth(_, _, _, _)
SpawnKidsSameDepth(S, p, kids, i) ==
    IF i > Len(kids) THEN S
    ELSE SpawnKidsSameDepth(serializeVariable(S, Kid(p, i), kids[i], S.walk[p].depth),
                            p, kids, i + 1)

SpawnKids(S, p, kids, i) ==
    IF i > Len(kids) THEN S
    ELSE SpawnKids(serializeVariable(S, Kid(p, i), kids[i], S.walk[p].depth + 1),
                   p, kids, i + 1)

\* entries of children 1..i of node p: <<[name, val], ...>> in child order
RECURSIVE KidEntries(_, _, _)
KidEntries(w, p, i) ==
    IF i = 0 THEN <<>>
    ELSE Append(KidEntries(w, p, i - 1),
                [name |-> w[Kid(p, i)].var.name, val |-> w[Kid(p, i)].res])

RECURSIVE Values(_)
Values(entries) ==
    IF entries = <<>> THEN <<>>
    ELSE Append(Values(SubSeq(entries, 1, Len(entries) - 1)),
                entries[Len(entries)].val)

\* Position of node q among the settled `variables` requests; nodes that are
\* not among them come last, in child order.
CompletionKey(p, i) ==
    LET q == Kid(p, i)
        at == {k \in 1..Len(answered) : answered[k] = q}
    IN  IF at = {} THEN Len(answered) + i ELSE CHOOSE k \in at : TRUE

RECURSIVE ByCompletion(_, _, _)
ByCompletion(entries, p, j) ==
    IF j > Len(entries) THEN <<>>
    ELSE LET i == CHOOSE i \in 1..Len(entries) :
                     Cardinality({k \in 1..Len(entries) :
                                     CompletionKey(p, k) < CompletionKey(p, i)}) = j - 1
         IN  <<entries[i]>> \o ByCompletion(entries, p, j + 1)

\* A broken assembly that collects the children's results as they complete.
AssembleByCompletion(w, p) ==
    LET entries == ByCompletion(KidEntries(w, p, w[p].n), p, 1)
    IN  IF w[p].arr THEN SeqV(Values(entries)) ELSE MapV(fromEntries(entries))

\* The value a node resolves with once its children have: the results in
\* child order (Promise.all), or Object.fromEntries of the [name, result]
\* pairs.
Assemble(w, p) ==
    LET entries == KidEntries(w, p, w[p].n)
    IN  IF w[p].arr THEN SeqV(Values(entries)) ELSE MapV(fromEntries(entries))

\* Node p's promise resolved with walk[p].res. The parent's map callback runs
\* counter.completeItem(); when that was the parent's last child, Promise.all
\* resolves and the parent resolves in turn.
RECURSIVE Settle(_, _)
Settle(S, p) ==
    LET S1 == [S EXCEPT !.walk[p].st = "done"]
    IN  IF p = <<>> THEN S1
        ELSE LET par == Parent(p)
                 S2 == Counted(S1, completeItem(S1.counter))
             IN  IF /\ S2.walk[par].st = "await"
                    /\ \A i \in 1..S2.walk[par].n : S2.walk[Kid(par, i)].st = "done"
                 THEN Settle([S2 EXCEPT !.walk[par].res = Assemble(S2.walk, par)], par)
                 ELSE S2

\* Node p's promise rejected: the parent's callback throws before
\* completeItem, so Promise.all and the parent reject at once.
RECURSIVE Reject(_, _)
Reject(S, p) ==
    LET S1 == [S EXCEPT !.walk[p].st = "failed"]
    IN  IF p = <<>> THEN S1
        ELSE IF S1.walk[Parent(p)].st = "await" THEN Reject(S1, Parent(p))
        ELSE S1

\* The callbacks of the children that resolved at once, in child order.
RECURSIVE SettleReady(_, _, _)
SettleReady(S, p, i) ==
    IF i > S.walk[p].n THEN S
    ELSE SettleReady(IF S.walk[Kid(p, i)].st = "ready" THEN Settle(S, Kid(p, i)) ELSE S,
                     p, i + 1)

\* A broken test that is satisfied by one numeric name.
isArrayLikeSome(children) ==
    \E i \in 1..Len(children) : AllDigits(children[i].name)

\* children.length > 0 && children.every((c) => /^\d+$/.test(c.name))
isArrayLike(children) ==
    Len(children) > 0 /\ \A i \in 1..Len(children) : AllDigits(children[i].name)

NotInternal(c) == ~StartsWith(c.name, <<"[", "[">>)

\* A broken expansion that registers every returned child with the counter,
\* the internal slots it does not recurse into included.
ExpandCountingInternal(S, p, children) ==
    LET arr  == isArrayLike(children)
        kids == IF arr THEN children ELSE SelectSeq(children, NotInternal)
        S1   == Counted([S EXCEPT !.walk[p].st = "await",
                                  !.walk[p].n = Len(kids),
                                  !.walk[p].arr = arr],
                        addItems(S.counter, Len(children)))
        S2   == SpawnKids(S1, p, kids, 1)
    IN  IF kids = <<>>
        THEN Settle([S2 EXCEPT !.walk[p].res = Assemble(S2.walk, p)], p)
        ELSE SettleReady(S2, p, 1)

\* serializeVariable after its `variables` response (lines 160-203).
Expand(S, p, children) ==
    LET arr  == isArrayLike(children)
        kids == IF arr THEN children ELSE SelectSeq(children, NotInternal)
        S1   == Counted([S EXCEPT !.walk[p].st = "await",
                                  !.walk[p].n = Len(kids),
                                  !.walk[p].arr = arr],
                        addItems(S.counter, Len(kids)))
        S2   == SpawnKids(S1, p, kids, 1)
    IN  IF kids = <<>>
        THEN Settle([S2 EXCEPT !.walk[p].res = Assemble(S2.walk, p)], p)
        ELSE SettleReady(S2, p, 1)

\* ---------------------------------------------------------------- JSON.parse

\* JSON.parse on the texts JSON.stringify writes: null, true, false, decimal
\* numbers without exponent, strings without escapes, arrays and objects.
ParseFail == [ok |-> FALSE]
Parsed(v, next) == [ok |-> TRUE, val |-> v, next |-> next]

CharAt(t, i) == IF i >= 1 /\ i <= Len(t) THEN t[i] ELSE ""
HasLiteral(t, i, lit) ==
    i + Len(lit) - 1 <= Len(t) /\ SubSeq(t, i, i + Len(lit) - 1) = lit

RECURSIVE SkipWs(_, _)
SkipWs(t, i) == IF IsSpace(CharAt(t, i)) THEN SkipWs(t, i + 1) ELSE i

\* first index from i on that holds no digit
RECURSIVE SkipDigits(_, _)
SkipDigits(t, i) == IF IsDigit(CharAt(t, i)) THEN SkipDigits(t, i + 1) ELSE i

\* index of the closing quote of a string whose content starts at i; 0 if none
RECURSIVE ClosingQuote(_, _)
ClosingQuote(t, i) ==
    IF i > Len(t) \/ t[i] = "\\" \/ t[i] = "\n" THEN 0
    ELSE IF t[i] = "\"" THEN i
    ELSE ClosingQuote(t, i + 1)

\* -?(0|[1-9]\d*)(\.\d+)? starting at i
ParseNumber(t, i) ==
    LET neg  == CharAt(t, i) = "-"
        a    == IF neg THEN i + 1 ELSE i
        b    == SkipDigits(t, a)
        int  == SubSeq(t, a, b - 1)
        dot  == CharAt(t, b) = "."
        c    == IF dot THEN SkipDigits(t, b + 1) ELSE b
        frac == IF dot THEN SubSeq(t, b + 1, c - 1) ELSE <<>>
    IN  IF int = <<>> \/ (Len(int) > 1 /\ int[1] = "0") \/ (dot /\ frac = <<>>)
        THEN ParseFail
        ELSE Parsed(Normalise((IF neg THEN -1 ELSE 1)
                                * (DigitsToNat(int) * Pow10(Len(frac)) + DigitsToNat(frac)),
                              Len(frac)),
                    c)

RECURSIVE ParseValue(_, _)
RECURSIVE ParseElems(_, _, _)
RECURSIVE ParseMembers(_, _, _)

ParseValue(t, i0) ==
    LET i == SkipWs(t, i0)
        c == CharAt(t, i)
    IN  IF HasLiteral(t, i, T_null) THEN Parsed(Null, i + 4)
        ELSE IF HasLiteral(t, i, T_true) THEN Parsed(Bool(TRUE), i + 4)
        ELSE IF HasLiteral(t, i, T_false) THEN Parsed(Bool(FALSE), i + 5)
        ELSE IF c = "\""
        THEN LET j == ClosingQuote(t, i + 1)
             IN  IF j = 0 THEN ParseFail
                 ELSE Parsed(Str(SubSeq(t, i + 1, j - 1)), j + 1)
        ELSE IF c = "["
        THEN LET k == SkipWs(t, i + 1)
             IN  IF CharAt(t, k) = "]" THEN Parsed(SeqV(<<>>), k + 1)
                 ELSE ParseElems(t, k, <<>>)
        ELSE IF c = "{"
        THEN LET k == SkipWs(t, i + 1)
             IN  IF CharAt(t, k) = "}" THEN Parsed(MapV(fromEntries(<<>>)), k + 1)
                 ELSE ParseMembers(t, k, <<>>)
        ELSE IF c = "-" \/ IsDigit(c) THEN ParseNumber(t, i)
        ELSE ParseFail

ParseElems(t, i, acc) ==
    LET r == ParseValue(t, i)
        k == SkipWs(t, r.next)
    IN  IF ~r.ok THEN ParseFail
        ELSE IF CharAt(t, k) = "," THEN ParseElems(t, k + 1, Append(acc, r.val))
        ELSE IF CharAt(t, k) = "]" THEN Parsed(SeqV(Append(acc, r.val)), k + 1)
        ELSE ParseFail

ParseMembers(t, i, acc) ==
    LET a == SkipWs(t, i)
        j == ClosingQuote(t, a + 1)
        b == SkipWs(t, j + 1)
        r == ParseValue(t, b + 1)
        k == SkipWs(t, r.next)
        e == [name |-> SubSeq(t, a + 1, j - 1), val |-> r.val]
    IN  IF CharAt(t, a) # "\"" \/ j = 0 THEN ParseFail
        ELSE IF CharAt(t, b) # ":" THEN ParseFail
        ELSE IF ~r.ok THEN ParseFail
        ELSE IF CharAt(t, k) = "," THEN ParseMembers(t, k + 1, Append(acc, e))
        ELSE IF CharAt(t, k) = "}" THEN Parsed(MapV(fromEntries(Append(acc, e))), k + 1)
        ELSE ParseFail

\* JSON.parse(text): [ok |-> FALSE] when it throws a SyntaxError.
JSONparse(t) ==
    LET r == ParseValue(t, 1)
    IN  IF r.ok /\ SkipWs(t, r.next) = Len(t) + 1 THEN r ELSE ParseFail

\* ------------------------------------------------- stand-alone gate harness

Callers == 1..MaxCallers

\* Callers are numbered in the order of their run() calls.
Arrived == {c \in Callers : cst[c] # "idle"}

SemInit ==
    /\ \E n \in 1..MaxLimit : sem = NewSemaphore(n)
    /\ cst = [c \in Callers |-> "idle"]
    /\ jobs = <<>>
    /\ started = <<>>
    /\ CapIdle
    /\ SideIdle

\* run(fn) up to its first await: acquire() is executed synchronously.
Run(c) ==
    /\ cst[c] = "idle"
    /\ \A d \in Callers : d < c => cst[d] # "idle"
    /\ LET r == acquire(sem, c)
       IN  /\ sem' = r.sem
           /\ cst' = [cst EXCEPT ![c] = IF r.resolved THEN "admitted" ELSE "queued"]
           /\ jobs' = IF r.resolved THEN Append(jobs, c) ELSE jobs
    /\ UNCHANGED <<started, capVars, sideVars>>

\* The continuation of `await this.acquire()`: fn() is called. Promise
\* continuations run in the order their promises were resolved.
Start(c) ==
    /\ jobs # <<>>
    /\ c = Head(jobs)
    /\ jobs' = Tail(jobs)
    /\ cst' = [cst EXCEPT ![c] = "running"]
    /\ started' = Append(started, c)
    /\ UNCHANGED <<sem, capVars, sideVars>>

\* A broken run() without the finally block: the slot is released only when
\* fn() resolves.
FinishLeaking(c, ok) ==
    /\ cst[c] = "running"
    /\ LET r == IF ok THEN release(sem) ELSE [sem |-> sem, next |-> <<>>]
       IN  /\ sem' = r.sem
           /\ jobs' = jobs \o r.next
           /\ cst' = [d \in Callers |->
                        IF d = c THEN (IF ok THEN "resolved" ELSE "rejected")
                        ELSE IF r.next = <<d>> THEN "admitted"
                        ELSE cst[d]]
    /\ UNCHANGED <<started, capVars, sideVars>>

\* fn()'s promise settles (ok = resolved, ~ok = rejected); the finally block
\* calls release().
Finish(c, ok) ==
    /\ cst[c] = "running"
    /\ LET r == release(sem)
       IN  /\ sem' = r.sem
           /\ jobs' = jobs \o r.next
           /\ cst' = [d \in Callers |->
                        IF d = c THEN (IF ok THEN "resolved" ELSE "rejected")
                        ELSE IF r.next = <<d>> THEN "admitted"
                        ELSE cst[d]]
    /\ UNCHANGED <<started, capVars, sideVars>>

SemNext ==
    \/ \E c \in Callers : Run(c)
    \/ \E c \in Callers : Start(c)
    \/ \E c \in Callers, ok \in BOOLEAN : Finish(c, ok)

SemSpec == SemInit /\ [][SemNext]_vars

\* ------------------------------------------------------ captureVariable

\* The gate under the assumption of the claim: the continuation of a
\* resolved acquire() runs (the microtask queue is drained), and every task
\* that was started settles.
SemFairSpec ==
    /\ SemSpec
    /\ WF_vars(\E c \in Callers : Start(c))
    /\ \A c \in Callers : WF_vars(\E ok \in BOOLEAN : Finish(c, ok))

\* Messages; ds: the text starts with "Data Snapshot:".
MsgNoSession == [ds |-> TRUE, text |-> "No active debug session."]
MsgSelect ==
    [ds |-> TRUE, text |-> "Select a variable or expression in the editor first."]
MsgInvalid(e) == [ds |-> TRUE, text |-> "is not a valid expression", expr |-> e]
MsgNoThreads == [ds |-> TRUE, text |-> "No threads found."]
MsgNoFrames == [ds |-> TRUE, text |-> "No stack frames"]
MsgFailedThreads == [ds |-> TRUE, text |-> "Failed to get threads."]
MsgFailedStack == [ds |-> TRUE, text |-> "Failed to get stack trace."]
MsgCouldNotEvaluate(e) == [ds |-> TRUE, text |-> "Could not evaluate", expr |-> e]
MsgTimeout(label) == [ds |-> TRUE, text |-> "Timed out waiting for", label |-> label]

\* What a protocol call rejects with: an error with or without a message.
AdapterErrors ==
    {[message |-> <<>>], [message |-> <<[ds |-> FALSE, text |-> "adapter error"]>>]}
\* withTimeout's timer rejects with this error after ms milliseconds.
TimeoutError(label) == [message |-> <<MsgTimeout(label)>>]

\* Inputs of one capture.
Selections ==
    { <<>>, <<" ", "\n">>, <<"[", "x", "]">>, <<"{", "a", "}">>,
      <<"a", "\n", "b">>, <<" ", "o", ".", "k", " ">> }
ThreadList == <<[id |-> 7, name |-> <<"m">>], [id |-> 3, name |-> <<"w">>]>>
FrameList ==
    << [id |-> 12, name |-> <<"g", "e", "t", " ", "x">>,
        path |-> <<"/a.ts">>, line |-> <<4>>],
       [id |-> 13, name |-> <<"m">>, path |-> <<>>, line |-> <<>>] >>
\* A response body is <<>> (undefined) or <<list>>.
ThreadsBodies == { <<>>, << <<>> >>, <<ThreadList>> }
StackBodies == { <<>>, << <<>> >>, <<FrameList>> }
\* resp.result of the fast-path evaluate: <<>> when absent.
T_ok == <<"'", "o", "k", "'">>
EvalResults == { <<>>, <<T_ok>>, <<<<"e", "r", "r">>>> }
\* Content of the temp file after the evaluate: <<>> when it does not exist.
A_object ==
    <<"{", "\"", "a", "\"", ":", "1", ",", "\"", "b", "\"", ":",
      "[", "1", ",", "2", ",", "3", "]", "}">>
Artifacts == { <<>>, <<A_object>>, <<T_null>>, <<<<"{", "\"", "a", "\"", ":">>>> }

IsWordChar(c) ==
    \/ IsDigit(c)
    \/ c \in {"_", "-"}
    \/ c \in {"a", "b", "c", "d", "e", "f", "g", "h", "i", "j", "k", "l", "m",
              "n", "o", "p", "q", "r", "s", "t", "u", "v", "w", "x", "y", "z"}
    \/ c \in {"A", "B", "C", "D", "E", "F", "G", "H", "I", "J", "K", "L", "M",
              "N", "O", "P", "Q", "R", "S", "T", "U", "V", "W", "X", "Y", "Z"}

\* name.replace(/[^a-zA-Z0-9_-]/g, "_").slice(0, 64)
sanitizeName(name) ==
    [i \in 1..Min(64, Len(name)) |-> IF IsWordChar(name[i]) THEN name[i] ELSE "_"]

\* A broken validation that does not look for a line break.
InvalidExpressionOneLine(e) == e # <<>> /\ Head(e) \in {"[", "{"}

\* /^[\[{]/.test(expression) || expression.includes("\n")
InvalidExpression(e) ==
    (e # <<>> /\ Head(e) \in {"[", "{"}) \/ Includes(e, <<"\n">>)

\* A snapshot keyed by the literal word instead of the expression text.
SnapshotLiteralKey(serialized) ==
    [version |-> 1,
     source |-> [file |-> frame.path, line |-> frame.line, functionName |-> frame.name],
     frame |-> [name |-> frame.name, id |-> frame.id],
     variables |-> (<<"e", "x", "p", "r", "e", "s", "s", "i", "o", "n">> :> serialized)]

\* The snapshot record and the file it is written to (lines 447-470).
Snapshot(serialized) ==
    [version |-> 1,
     source |-> [file |-> frame.path, line |-> frame.line, functionName |-> frame.name],
     frame |-> [name |-> frame.name, id |-> frame.id],
     variables |-> (expression :> serialized)]

SnapshotFile(serialized) ==
    [name |-> <<sanitizeName(frame.name), sanitizeName(expression)>>,
     snapshot |-> Snapshot(serialized)]

\* e.message ?? fallback
MessageOr(e, fallback) == IF e.message = <<>> THEN fallback ELSE e.message[1]

\* e.message?.startsWith("Data Snapshot:") ? e.message : `Could not evaluate ...`
EvaluateCatch(e) ==
    IF e.message # <<>> /\ e.message[1].ds THEN e.message[1]
    ELSE MsgCouldNotEvaluate(expression)

Abort(msg) ==
    /\ pc' = "aborted"
    /\ errors' = Append(errors, msg)

\* A slow path that is entered whatever the fast path returned.
NeedsFallbackAlways(serialized) == TRUE

\* serialized === undefined
NeedsFallback(serialized) == serialized = Undef

\* A broken fast path that believes the evaluate without reading the artifact.
fastSerializeTrusting(resp, artifact) ==
    IF resp # <<>> /\ Includes(resp[1], <<"o", "k">>)
    THEN (IF artifact # <<>> /\ JSONparse(artifact[1]).ok
          THEN JSONparse(artifact[1]).val ELSE Str(resp[1]))
    ELSE Undef

\* fastSerialize once its evaluate answered with result resp (lines 257-270):
\* the artifact is read and decoded only if the result includes "ok"; a
\* missing file or a SyntaxError is caught and undefined is returned.
fastSerialize(resp, artifact) ==
    IF resp # <<>> /\ Includes(resp[1], <<"o", "k">>)
    THEN (IF artifact = <<>> THEN Undef
          ELSE IF JSONparse(artifact[1]).ok THEN JSONparse(artifact[1]).val
          ELSE Undef)
    ELSE Undef

\* A conclusion that does not look at the cancellation token.
ConcludeIgnoringCancel(serialized) ==
    pc' = "done" /\ files' = Append(files, SnapshotFile(serialized))

\* A conclusion that writes the file before it looks at the token.
ConcludeWritingFirst(serialized) ==
    /\ files' = Append(files, SnapshotFile(serialized))
    /\ pc' = IF cancelled THEN "aborted" ELSE "done"

\* Lines 445-472: a cancelled capture returns undefined, any other writes the
\* snapshot file and returns it.
Conclude(serialized) ==
    IF cancelled
    THEN pc' = "aborted" /\ files' = files
    ELSE pc' = "done" /\ files' = Append(files, SnapshotFile(serialized))

EmptyWalk == [p \in {} |-> NoVal]

\* captureVariable is called: the checks of lines 304-325, then the threads
\* request is sent under withTimeout.
Capture(hasSession, sel, md) ==
    /\ pc = "idle"
    /\ LET e == IF sel = <<>> THEN <<>> ELSE Trim(sel[1])
       IN  IF ~hasSession
           THEN Abort(MsgNoSession)
                /\ UNCHANGED <<expression, maxDepth, reqs, progress>>
           ELSE IF e = <<>>
           THEN Abort(MsgSelect)
                /\ UNCHANGED <<expression, maxDepth, reqs, progress>>
           ELSE IF InvalidExpression(e)
           THEN Abort(MsgInvalid(e))
                /\ UNCHANGED <<expression, maxDepth, reqs, progress>>
           ELSE /\ pc' = "threads"
                /\ expression' = e
                /\ maxDepth' = md
                /\ progress' = [msg |-> "Evaluating expression"]
                /\ reqs' = Append(reqs, [cmd |-> "threads"])
                /\ UNCHANGED errors
    /\ UNCHANGED <<sideVars, emitted, semVars, cancelled, hung, frame, fast, fastIn, heap, walk, counter, files>>

\* The threads request resolves.
ThreadsResponse(body) ==
    /\ pc = "threads" /\ ~hung
    /\ LET threads == IF body = <<>> THEN <<>> ELSE body[1]
       IN  IF threads = <<>>
           THEN Abort(MsgNoThreads) /\ UNCHANGED reqs
           ELSE /\ pc' = "stackTrace"
                /\ reqs' = Append(reqs, [cmd |-> "stackTrace", threadId |-> threads[1].id])
                /\ UNCHANGED errors
    /\ UNCHANGED <<sideVars, emitted, semVars, expression, maxDepth, cancelled, hung, frame, fast, fastIn,
                   heap, walk, counter, progress, files>>

\* The stackTrace request resolves; with a frame, fastSerialize sends its
\* evaluate (context repl), without a timeout.
StackResponse(body) ==
    /\ pc = "stackTrace" /\ ~hung
    /\ LET frames == IF body = <<>> THEN <<>> ELSE body[1]
       IN  IF frames = <<>>
           THEN Abort(MsgNoFrames) /\ UNCHANGED <<reqs, frame, progress>>
           ELSE /\ pc' = "fast"
                /\ frame' = frames[1]
                /\ progress' = [msg |-> "Serializing (fast path)"]
                /\ reqs' = Append(reqs, [cmd |-> "evaluate", context |-> "repl",
                                         frameId |-> frames[1].id])
                /\ UNCHANGED errors
    /\ UNCHANGED <<sideVars, emitted, semVars, expression, maxDepth, cancelled, hung, fast, fastIn, heap,
                   walk, counter, files>>

\* A broken failure handler that sends the failed request again.
SetupFailureRetrying(e) ==
    /\ pc \in {"threads", "stackTrace", "hover"}
    /\ reqs' = Append(reqs, reqs[Len(reqs)])
    /\ UNCHANGED <<sideVars, emitted, semVars, pc, expression, maxDepth, cancelled, hung, frame,
                   fast, fastIn, heap, walk, counter, errors, progress, files>>

\* threads, stackTrace or the root evaluate rejects, or its withTimeout timer
\* fires first: the catch block shows a message and returns undefined.
SetupFailure(e) ==
    /\ \/ pc = "threads" /\ Abort(MessageOr(e, MsgFailedThreads))
       \/ pc = "stackTrace" /\ Abort(MessageOr(e, MsgFailedStack))
       \/ pc = "hover" /\ Abort(EvaluateCatch(e))
    /\ UNCHANGED <<sideVars, emitted, semVars, expression, maxDepth, cancelled, hung, reqs, frame,
                   fast, fastIn, heap, walk, counter, progress, files>>

SetupReject(e) == ~hung /\ SetupFailure(e)

TimeoutLabel ==
    CASE pc = "threads" -> "threads"
      [] pc = "stackTrace" -> "stack trace"
      [] OTHER -> "evaluate"

\* A timer that guards threads and stackTrace but not the root evaluate.
TimeoutSetupOnly ==
    /\ pc \in {"threads", "stackTrace"}
    /\ SetupFailure(TimeoutError(TimeoutLabel))

\* The setTimeout of withTimeout (DAP_TIMEOUT_MS) fires before the response.
Timeout ==
    /\ pc \in {"threads", "stackTrace", "hover"}
    /\ SetupFailure(TimeoutError(TimeoutLabel))

\* After fastSerialize returned value v (lines 395-445).
AfterFast(v) ==
    /\ fast' = v
    /\ IF NeedsFallback(v)
       THEN /\ pc' = "hover"
            /\ progress' = [msg |-> "Fast path unavailable"]
            /\ reqs' = Append(reqs, [cmd |-> "evaluate", context |-> "hover",
                                     frameId |-> frame.id, expression |-> expression])
            /\ UNCHANGED files
       ELSE /\ Conclude(v)
            /\ UNCHANGED <<progress, reqs>>
    /\ UNCHANGED <<sideVars, emitted, semVars, expression, maxDepth, cancelled, hung, frame, heap,
                   walk, counter, errors>>

\* The fast-path evaluate resolves; artifact is the temp file's content.
FastResponse(resp, artifact) ==
    /\ pc = "fast" /\ ~hung
    /\ fastIn' = [kind |-> "response", resp |-> resp, artifact |-> artifact]
    /\ AfterFast(fastSerialize(resp, artifact))

\* The fast-path evaluate rejects: caught, fastSerialize returns undefined.
FastReject ==
    /\ pc = "fast" /\ ~hung
    /\ fastIn' = [kind |-> "reject"]
    /\ AfterFast(Undef)

\* After a task of the walk: captureVariable resumes when the root call
\* settled (line 434), and is otherwise still waiting.
Resume(S) ==
    /\ walk' = S.walk
    /\ sem' = S.sem
    /\ counter' = S.counter
    /\ progress' = S.progress
    /\ emitted' = S.emitted
    /\ IF pc \in {"hover", "walk"} /\ S.walk[<<>>].st = "done"
       THEN Conclude(S.walk[<<>>].res)
       ELSE IF pc \in {"hover", "walk"} /\ S.walk[<<>>].st = "failed"
       THEN pc' = "rejected" /\ files' = files
       ELSE IF pc = "hover"
       THEN pc' = "walk" /\ files' = files
       ELSE UNCHANGED <<pc, files>>

\* The root evaluate (context hover) resolves with the root of object graph
\* h: the gate is created and the root serializeVariable call is made.
HoverResponse(h) ==
    /\ pc = "hover" /\ ~hung
    /\ heap' = h
    /\ LET root == Heaps[h].root
           S0 == [walk |-> EmptyWalk, sem |-> NewSemaphore(DAP_CONCURRENCY),
                  counter |-> counter, progress |-> progress,
                  emitted |-> emitted]
           S1 == serializeVariable(
                    S0, <<>>,
                    DapVar(expression, root.result, root.type, root.variablesReference),
                    0)
       IN  Resume(IF S1.walk[<<>>].st = "ready" THEN Settle(S1, <<>>) ELSE S1)
    /\ UNCHANGED <<sideVars, cst, jobs, started, expression, maxDepth, cancelled, hung,
                   reqs, frame, fast, fastIn, errors>>

\* Semaphore.run's finally block when the request of node p settled: the
\* slot is released, and a queued node handed the slot sends its request.
Released(p) ==
    LET r == release(sem)
    IN  [walk |-> [q \in DOMAIN walk |->
                      IF r.next = <<q>>
                      THEN [walk[q] EXCEPT !.st = "inflight", !.sent = TRUE]
                      ELSE walk[q]],
         sem |-> r.sem, counter |-> counter, progress |-> progress,
                  emitted |-> emitted]

\* The `variables` request of node p settles: "ok" with the children of its
\* reference, "undefined" without a body, "reject" with an error.
VariablesResponse(p, outcome) ==
    /\ p \in DOMAIN walk
    /\ walk[p].st = "inflight"
    /\ Resume(CASE outcome = "ok" ->
                     Expand(Released(p), p, Children(heap, walk[p].var.variablesReference))
                [] outcome = "undefined" -> Expand(Released(p), p, <<>>)
                [] outcome = "reject" -> Reject(Released(p), p))
    /\ answered' = Append(answered, p)
    /\ UNCHANGED <<prim, dir, listing, stubVars, cst, jobs, started, expression, maxDepth,
                   cancelled, hung, reqs, frame, fast, fastIn, heap, errors>>

\* The debug adapter never answers the pending setup or evaluate request.
DropRequest ==
    /\ pc \in {"threads", "stackTrace", "fast", "hover"}
    /\ ~hung
    /\ hung' = TRUE
    /\ UNCHANGED <<sideVars, emitted, semVars, pc, expression, maxDepth, cancelled, reqs, frame,
                   fast, fastIn, heap, walk, counter, errors, progress, files>>

\* The debug adapter never answers the `variables` request of node p.
DropVariables(p) ==
    /\ p \in DOMAIN walk
    /\ walk[p].st = "inflight"
    /\ walk' = [walk EXCEPT ![p].st = "lost"]
    /\ UNCHANGED <<sideVars, emitted, semVars, pc, expression, maxDepth, cancelled, hung, reqs,
                   frame, fast, fastIn, heap, counter, errors, progress, files>>

\* The user presses Cancel on the progress notification.
Cancel ==
    /\ pc \in {"threads", "stackTrace", "fast", "hover", "walk"}
    /\ ~cancelled
    /\ cancelled' = TRUE
    /\ UNCHANGED <<sideVars, emitted, semVars, pc, expression, maxDepth, hung, reqs, frame, fast, fastIn,
                   heap, walk, counter, errors, progress, files>>

Paths == DOMAIN walk

Init ==
    /\ sem = NoSemaphore
    /\ cst = [c \in Callers |-> "idle"]
    /\ jobs = <<>>
    /\ started = <<>>
    /\ CapIdle
    /\ SideIdle

Next ==
    \/ \E hasSession \in BOOLEAN, sel \in {<<>>} \cup {<<t>> : t \in Selections},
          md \in 0..MaxDepthSetting : Capture(hasSession, sel, md)
    \/ \E body \in ThreadsBodies : ThreadsResponse(body)
    \/ \E body \in StackBodies : StackResponse(body)
    \/ \E e \in AdapterErrors : SetupReject(e)
    \/ Timeout
    \/ \E resp \in EvalResults, artifact \in Artifacts : FastResponse(resp, artifact)
    \/ FastReject
    \/ \E h \in HeapIds : HoverResponse(h)
    \/ \E p \in Paths, outcome \in {"ok", "undefined", "reject"} :
          VariablesResponse(p, outcome)
    \/ DropRequest
    \/ \E p \in Paths : DropVariables(p)
    \/ Cancel

Spec == Init /\ [][Next]_vars

\* A timer set with setTimeout fires once its delay has passed.
FairSpec == Spec /\ WF_vars(Timeout)

\* --------------------------------------------- stand-alone counter harness

\* The child positions of the object graphs, and the paths of the
\* serializeVariable calls that can send a request.
Branches ==
    UNION {UNION {1..Len(Heaps[h].kids[r]) : r \in 1..Len(Heaps[h].kids)} : h \in HeapIds}
RequestPaths == UNION {[1..n -> Branches] : n \in 0..(MaxDepthSetting - 1)}

\* The `variables` request of node p is sent and has not settled.
Pending(p) == p \in DOMAIN walk /\ walk[p].st \in {"inflight", "lost"}

\* One captureVariable call in which every `variables` request sent is
\* answered in the end: no request stays pending for ever.
WalkFairSpec == Spec /\ \A p \in RequestPaths : []<>(~Pending(p))

\* One call on the counter: its new fields, and what report() gave the sink.
Emit(r) ==
    /\ counter' = r.counter
    /\ emitted' = emitted \o r.emit
    /\ progress' = IF r.emit = <<>> THEN progress ELSE ProgressOf(r.counter)
    /\ UNCHANGED <<sideVars, semVars, pc, expression, maxDepth, cancelled, hung, reqs,
                   frame, fast, fastIn, heap, walk, errors, files>>

\* counter.addItems(n), n being the length of a list of children.
AddItems(n) ==
    /\ counter.total + n <= MaxTotal
    /\ Emit(addItems(counter, n))

\* counter.completeItem()
CompleteItem ==
    /\ counter.completed < MaxCompleted
    /\ Emit(completeItem(counter))

CounterNext ==
    \/ \E n \in 0..MaxTotal : AddItems(n)
    \/ CompleteItem

CounterSpec == Init /\ [][CounterNext]_vars

\* ------------------------------------------------ SnapshotTreeProvider

\* The characters of file names in ascending UTF-16 code unit order.
CodeOrder ==
    <<"-", ".", "0", "1", "2", "3", "4", "5", "6", "7", "8", "9", "T", "Z", "_",
      "a", "b", "c", "d", "e", "f", "g", "h", "i", "j", "k", "l", "m", "n", "o",
      "p", "q", "r", "s", "t", "u", "v", "w", "x", "y", "z">>
Code(c) == CHOOSE i \in 1..Len(CodeOrder) : CodeOrder[i] = c

\* a < b as Array.prototype.sort compares strings without a comparator:
\* by code units, a proper prefix first.
RECURSIVE Before(_, _)
Before(a, b) ==
    IF b = <<>> THEN FALSE
    ELSE IF a = <<>> THEN TRUE
    ELSE IF Head(a) = Head(b) THEN Before(Tail(a), Tail(b))
    ELSE Code(Head(a)) < Code(Head(b))

RECURSIVE Insert(_, _)
Insert(x, sorted) ==
    IF sorted = <<>> THEN <<x>>
    ELSE IF Before(x, Head(sorted)) THEN <<x>> \o sorted
    ELSE <<Head(sorted)>> \o Insert(x, Tail(sorted))

\* names.sort()
RECURSIVE Sort(_)
Sort(names) == IF names = <<>> THEN <<>> ELSE Insert(Head(names), Sort(Tail(names)))

\* names.reverse()
RECURSIVE Reverse(_)
Reverse(names) ==
    IF names = <<>> THEN <<>> ELSE Append(Reverse(Tail(names)), Head(names))

T_json == <<".", "j", "s", "o", "n">>
IsJson(f) == EndsWith(f, T_json)

\* A listing that leaves the names in the order the directory gives them.
getChildrenUnsorted(names) == SelectSeq(names, IsJson)

\* SnapshotTreeProvider.getChildren on the names readdirSync returns.
getChildren(names) == Reverse(Sort(SelectSeq(names, IsJson)))

\* now.toISOString().replace(/[:.]/g, "-") for the t-th second of an hour:
\* every field has a fixed width, so later instants give greater strings.
Timestamp(t) ==
    <<"2", "0", "2", "4", "-", "0", "1", "-", "0", "1", "T", "0", "0", "-",
      "0", "0", "-">>
      \o <<CodeOrder[3 + (t \div 10)], CodeOrder[3 + (t % 10)]>>
      \o <<"-", "0", "0", "0", "Z">>

\* `${sanitizeName(functionName)}_${sanitizeName(expression)}_${timestamp}.json`
FileName(functionName, expr, t) ==
    sanitizeName(functionName) \o <<"_">> \o sanitizeName(expr) \o <<"_">>
        \o Timestamp(t) \o T_json

FunctionNames == {FrameList[1].name, FrameList[2].name}
Expressions == {<<"o", ".", "k">>, <<"z">>}
Names(d) == [i \in 1..Len(d) |-> d[i].name]

\* A capture made in function fn of expression e succeeds: its file is
\* written; t is the second it is made in (a later capture, a later second).
WriteSnapshot(fn, e) ==
    /\ Len(dir) < MaxFiles
    /\ dir' = Append(dir, [name |-> FileName(fn, e, Len(dir) + 1), t |-> Len(dir) + 1])
    /\ UNCHANGED <<histVars, semVars, capVars, listing, stubVars>>

\* Some other program leaves a file that is not a snapshot in the directory.
OtherFile ==
    /\ Len(dir) < MaxFiles
    /\ \A i \in 1..Len(dir) : dir[i].t # 0
    /\ dir' = Append(dir, [name |-> <<"l", "o", "g">>, t |-> 0])
    /\ UNCHANGED <<histVars, semVars, capVars, listing, stubVars>>

\* The Snapshots view is refreshed.
GetChildren ==
    /\ listing' = getChildren(Names(dir))
    /\ UNCHANGED <<histVars, semVars, capVars, dir, stubVars>>

ListNext ==
    \/ \E fn \in FunctionNames, e \in Expressions : WriteSnapshot(fn, e)
    \/ OtherFile
    \/ GetChildren

ListSpec == Init /\ [][ListNext]_vars

\* ---------------------------------------------------------- inline stubs

\* A line of source text is a sequence of lexemes: each white space
\* character by itself, and each word, operator or comment marker whole.
MARKER_START == <<"// data-snapshot-stub-start:">>
MARKER_END == <<"// data-snapshot-stub-end">>
Keywords == {"const", "let", "var"}
\* The identifiers (\w+) of the source files below.
VarNames == {"x", "y"}

\* text.match(/^(\s*)/)[1]
RECURSIVE IndentOf(_)
IndentOf(text) ==
    IF text # <<>> /\ IsSpace(Head(text)) THEN <<Head(text)>> \o IndentOf(Tail(text))
    ELSE <<>>

\* The index after the white space that starts at index i of text.
RECURSIVE SkipSpace(_, _)
SkipSpace(text, i) ==
    IF i <= Len(text) /\ IsSpace(text[i]) THEN SkipSpace(text, i + 1) ELSE i

\* new RegExp(`\\b(?:const|let|var)\\s+${varName}\\b`).test(text)
assignPattern(text, varName) ==
    \E i \in 1..Len(text) :
        /\ text[i] \in Keywords
        /\ SkipSpace(text, i + 1) > i + 1
        /\ SkipSpace(text, i + 1) <= Len(text)
        /\ text[SkipSpace(text, i + 1)] = varName

\* A broken filter that also passes over the line a stub assigns on, which
\* always carries the JSON.parse call.
NotStubbedOrStubLine(text) ==
    ~Includes(text, MARKER_START) /\ ~Includes(text, <<"JSON.parse(...)">>)

\* !text.includes(MARKER_START)
NotStubbed(text) == ~Includes(text, MARKER_START)

\* The indexes of the lines that declare varName and are not stubbed.
candidates(d, varName) ==
    {i \in 1..Len(d) : assignPattern(d[i], varName) /\ NotStubbed(d[i])}

\* declMatch ? declMatch[1] : `const ${varName}`, for declarations without
\* a type annotation: keyword, white space, a word, then "=".
prefixOf(trimmed, varName) ==
    LET w == SkipSpace(trimmed, 2)
    IN  IF /\ Len(trimmed) >= 1 /\ trimmed[1] \in Keywords
           /\ w > 2 /\ w <= Len(trimmed) /\ trimmed[w] \in VarNames
           /\ SkipSpace(trimmed, w + 1) <= Len(trimmed)
           /\ trimmed[SkipSpace(trimmed, w + 1)] = "="
        THEN SubSeq(trimmed, 1, w)
        ELSE <<"const", " ", varName>>

\* The five lines that replace the declaration (lines 83-103).
replacement(originalText, varName) ==
    LET indent == IndentOf(originalText)
        originalTrimmed == Trim(originalText)
    IN  << indent \o MARKER_START \o <<" ">> \o originalTrimmed,
           indent \o <<"/* eslint-disable */">>,
           indent \o prefixOf(originalTrimmed, varName)
                  \o <<" ", "=", " ", "JSON.parse(...)", ";">>,
           indent \o <<"/* eslint-enable */">>,
           indent \o MARKER_END >>

\* startText.trimStart().startsWith(marker)
StartsWithMarker(text, marker) == StartsWith(TrimStart(text), marker)

\* The first line after line i that starts with MARKER_END, or the line
\* count plus one when there is none (lines 154-160).
RECURSIVE endLineIdx(_, _)
endLineIdx(d, j) ==
    IF j <= Len(d) /\ ~StartsWithMarker(d[j], MARKER_END) THEN endLineIdx(d, j + 1)
    ELSE j

\* `${indent}${originalTrimmed}` recovered from a start marker line.
restored(startText) ==
    IndentOf(startText)
        \o Trim(SubSeq(startText, Len(IndentOf(startText)) + 2, Len(startText)))

\* The loop of removeAllInlineStubs from line i on (lines 136-177): the
\* lines of the document once the collected replacements are applied.
RECURSIVE revert(_, _)
revert(d, i) ==
    IF i > Len(d) THEN <<>>
    ELSE IF ~StartsWithMarker(d[i], MARKER_START) THEN <<d[i]>> \o revert(d, i + 1)
    ELSE LET e == endLineIdx(d, i + 1)
         IN  IF e <= Len(d) THEN <<restored(d[i])>> \o revert(d, e + 1)
             ELSE <<restored(d[i])>> \o SubSeq(d, i + 1, Len(d))

\* Source files under src before any stub is applied.
Documents ==
    { << <<" ", " ", "const", " ", "x", " ", "=", " ", "f()", ";">>,
         <<" ", " ", "return", " ", "x", ";">> >>,
      << <<"let", " ", "y", " ", "=", " ", "g()", ";", " ">> >>,
      << <<"var", " ", "x", ";">>,
         <<"\t", "const", " ", "x", "=", "h()", ";">>,
         <<"const", " ", "y", " ", "=", " ", "x", ";">> >>,
      << <<"let", " ", "x", " ", "=", " ", "1", ";">>,
         <<>>,
         <<"\t", "\t", "let", " ", "y", " ", "=", " ", "2", ";">>,
         <<"if", " ", "(", "x", ")", " ", "{", " ", "var", " ", "y", " ", "=", " ", "3", ";",
           " ", "}">> >> }

\* A source file is opened.
Open(d) ==
    /\ doc = <<>>
    /\ doc' = d
    /\ orig' = d
    /\ UNCHANGED <<histVars, semVars, capVars, dir, listing, stubs, reverted>>

\* applyInlineStub for a snapshot of varName succeeds on line lineIndex: the
\* only candidate, or the one picked among several.
ApplyInlineStub(varName, lineIndex) ==
    /\ doc # <<>> /\ ~reverted
    /\ stubs < MaxStubs
    /\ lineIndex \in candidates(doc, varName)
    /\ doc' = SubSeq(doc, 1, lineIndex - 1)
                \o replacement(doc[lineIndex], varName)
                \o SubSeq(doc, lineIndex + 1, Len(doc))
    /\ stubs' = stubs + 1
    /\ UNCHANGED <<histVars, semVars, capVars, dir, listing, orig, reverted>>

\* removeAllInlineStubs on the file.
RemoveAllInlineStubs ==
    /\ doc # <<>> /\ ~reverted
    /\ doc' = revert(doc, 1)
    /\ reverted' = TRUE
    /\ UNCHANGED <<histVars, semVars, capVars, dir, listing, orig, stubs>>

StubNext ==
    \/ \E d \in Documents : Open(d)
    \/ \E v \in VarNames, i \in 1..(5 * MaxStubs + 3) : ApplyInlineStub(v, i)
    \/ RemoveAllInlineStubs

StubSpec == Init /\ [][StubNext]_vars

\* ------------------------------------ stand-alone parsePrimitiveValue harness

\* The characters the input texts are made of, the texts, and the type tags
\* (<<>>: no tag).
RawChars == {"1", "0", "-", ".", "\"", "'", "a", " "}
RawTexts ==
    UNION {[1..n -> RawChars] : n \in 0..MaxRawLen}
        \cup {T_undefined, T_null, T_true, T_false, T_Infinity, <<"N", "a", "N">>,
               <<"\"", "n", "u", "l", "l", "\"">>, <<"'", "t", "r", "u", "e", "'">>}
TypeTags == {<<>>, <<T_number>>, <<T_string>>, <<T_Object>>}

\* parsePrimitiveValue(raw, type) is called and returns.
Decode(raw, type) ==
    /\ prim' = [raw |-> raw, type |-> type, out |-> parsePrimitiveValue(raw, type)]
    /\ UNCHANGED <<answered, semVars, capVars, dir, listing, stubVars>>

ParseNext == \E raw \in RawTexts, type \in TypeTags : Decode(raw, type)

ParseSpec == Init /\ [][ParseNext]_vars

\* ---------------------------------------------------------------- claims

Holding == {c \in Callers : cst[c] \in {"admitted", "running"}}

\* C1: the number of tasks admitted by the gate and not yet released never
\* exceeds the limit, for every order of run calls and task completions.
C1_ActiveNeverExceedsLimit ==
    /\ Cardinality(Holding) <= sem.limit
    /\ sem.active = Cardinality(Holding)

\* C1 witness: the gate is full and a further caller is waiting.
C1_Witness ==
    /\ Cardinality(Holding) = sem.limit
    /\ sem.limit >= 2
    /\ sem.queue # <<>>

Queued == {c \in Callers : cst[c] = "queued"}

\* A step in which a running task settles while callers are queued.
ReleaseWhileQueued ==
    /\ Queued # {}
    /\ \E c \in Callers : cst[c] = "running" /\ cst'[c] \in {"resolved", "rejected"}

\* Exactly one queued caller is admitted by the step, the one that called
\* run first, and the active count is unchanged.
HandsSlotToOldest ==
    /\ sem'.active = sem.active
    /\ \E d \in Queued :
          /\ \A e \in Queued : d <= e
          /\ cst'[d] = "admitted"
          /\ \A e \in Queued \ {d} : cst'[e] = "queued"

\* Tasks are started in the order of their run calls.
StartedInRunOrder ==
    \A i, j \in 1..Len(started) : i < j => started[i] < started[j]

\* C3: a release while callers are queued admits exactly the longest-waiting
\* caller and leaves the active count as it was; tasks start in the order of
\* their run calls, so a later run call never starts before a queued one.
C3_FifoHandoff ==
    /\ [][ReleaseWhileQueued => HandsSlotToOldest]_vars
    /\ []StartedInRunOrder

\* C3 witness: a caller that had to queue behind another queued caller has
\* been handed a slot and started, after a task failed.
C3_Witness ==
    /\ Len(started) >= sem.limit + 2
    /\ \E c \in Callers : cst[c] = "rejected"
    /\ Queued # {}

\* The properties below are about one captureVariable call.

InFlight == {p \in DOMAIN walk : walk[p].st \in {"inflight", "lost"}}
WalkQueued == {p \in DOMAIN walk : walk[p].st = "queued"}
EvaluateCount(ctx) ==
    Cardinality({i \in 1..Len(reqs) :
                    reqs[i].cmd = "evaluate" /\ reqs[i].context = ctx})

\* C2: the `variables` requests sent and not yet answered never number more
\* than DAP_CONCURRENCY, and each of them holds a slot of the one gate the
\* capture created.
C2_InFlightBounded ==
    /\ Cardinality(InFlight) <= DAP_CONCURRENCY
    /\ DOMAIN walk # {} =>
          /\ sem.limit = DAP_CONCURRENCY
          /\ sem.active = Cardinality(InFlight)
          /\ {sem.queue[i] : i \in 1..Len(sem.queue)} = WalkQueued
    /\ \A p \in InFlight : walk[p].sent

\* C2 witness: the gate is full and a node of the walk waits for a slot.
C2_Witness ==
    /\ Cardinality(InFlight) = DAP_CONCURRENCY
    /\ WalkQueued # {}

DepthLimited(p) ==
    walk[p].var.variablesReference # 0 /\ walk[p].depth >= maxDepth

\* Every request of the walk was answered with the children of its reference.
AnsweredWithChildren ==
    \A p \in DOMAIN walk :
        walk[p].sent =>
            /\ walk[p].st = "done"
            /\ walk[p].n = Len(SelectSeq(Children(heap, walk[p].var.variablesReference),
                                         NotInternal))

\* The value of {a: {b: {c: 1}}} walked with the depth limit md.
ChainValue(md) ==
    LET c == MapV(<<"c">> :> Num(1, 0))
        b == MapV(<<"b">> :> IF md > 2 THEN c ELSE Unresolved(<<>>))
        a == MapV(<<"a">> :> IF md > 1 THEN b ELSE Unresolved(<<T_Object>>))
    IN  IF md > 0 THEN a ELSE Unresolved(<<T_Object>>)

\* C4 as stated: every call on an expandable reference at depth >= maxDepth
\* returns the unresolved sentinel and sends no request.
C4_AlwaysUnresolved ==
    \A p \in DOMAIN walk :
        DepthLimited(p) =>
            /\ ~walk[p].sent
            /\ walk[p].res = Unresolved(walk[p].var.type)

\* C4 (amended): a call on an expandable reference at depth >= maxDepth
\* sends no request and returns the unresolved sentinel naming the type, or
\* "[cancelled]" when cancellation had been requested; no request is sent for
\* a node at depth >= maxDepth, and the three-level chain walked to the end
\* holds the sentinel exactly at depth maxDepth with real data above it.
C4_DepthSentinel ==
    /\ \A p \in DOMAIN walk :
          /\ DepthLimited(p) =>
                /\ ~walk[p].sent
                /\ walk[p].st = "done"
                /\ \/ walk[p].res = Unresolved(walk[p].var.type)
                   \/ cancelled /\ walk[p].res = Str(T_cancelled)
          /\ walk[p].sent => walk[p].depth < maxDepth
    /\ (pc = "done" /\ heap = 3 /\ AnsweredWithChildren) =>
          files[1].snapshot.variables[expression] = ChainValue(maxDepth)

\* C4 witness: the chain was walked with maxDepth 2 and its third level is
\* the sentinel.
C4_Witness ==
    /\ pc = "done" /\ heap = 3 /\ maxDepth = 2
    /\ <<1, 1>> \in DOMAIN walk
    /\ walk[<<1, 1>>].res = Unresolved(<<>>)
    /\ walk[<<1>>].sent

Ended == pc \in {"done", "aborted", "rejected"}

SetupFailureTexts ==
    {"Timed out waiting for", "Failed to get threads.", "Failed to get stack trace.",
     "No threads found.", "No stack frames", "Could not evaluate", "adapter error"}

\* The fast path or the walk produced a value.
ValueProduced ==
    \/ fast \notin {NoVal, Undef}
    \/ <<>> \in DOMAIN walk /\ walk[<<>>].st = "done"

C6_NeverRejects == pc # "rejected"

\* A protocol call that will never be answered is pending.
HungCall ==
    \/ hung /\ pc \in {"threads", "stackTrace", "fast", "hover"}
    \/ pc = "walk" /\ \E p \in DOMAIN walk : walk[p].st = "lost"

\* C7 as stated: whichever protocol call is never answered, the capture
\* reaches Aborted.
C7_AnyCallTimesOut == HungCall ~> (pc = "aborted")

\* C7 (amended): a threads, stackTrace or root evaluate call that is never
\* answered ends the capture Aborted with the timeout message naming the
\* step; the fast-path evaluate and the `variables` requests have no
\* deadline, and a capture waiting on one of them that is never answered
\* does not get past it.
C7_SetupCallsTimeOut ==
    /\ (hung /\ pc = "threads")
          ~> (pc = "aborted" /\ errors = <<MsgTimeout("threads")>>)
    /\ (hung /\ pc = "stackTrace")
          ~> (pc = "aborted" /\ errors = <<MsgTimeout("stack trace")>>)
    /\ (hung /\ pc = "hover")
          ~> (pc = "aborted" /\ errors = <<MsgTimeout("evaluate")>>)
    /\ [][(hung /\ pc = "fast") => pc' = "fast"]_vars
    /\ [][(pc = "walk" /\ \E p \in DOMAIN walk : walk[p].st = "lost")
              => pc' \in {"walk", "rejected"}]_vars

\* C7 witness: the root evaluate was never answered and its timer ended the
\* capture.
C7_Witness ==
    /\ hung /\ pc = "aborted"
    /\ errors = <<MsgTimeout("evaluate")>>

\* The fast-path evaluate reported success and the artifact decodes.
Succeeds(in) ==
    /\ in.kind = "response"
    /\ in.resp # <<>>
    /\ Includes(in.resp[1], <<"o", "k">>)
    /\ in.artifact # <<>>
    /\ JSONparse(in.artifact[1]).ok

FastPathSucceeds == Succeeds(fastIn)

\* C8: after a successful fast path no `variables` request and no second
\* evaluate is sent, and the snapshot written has one variables entry, keyed
\* by the expression, holding the structure decoded from the artifact.
C8_FastPathOnly ==
    FastPathSucceeds =>
        /\ DOMAIN walk = {}
        /\ EvaluateCount("repl") = 1 /\ EvaluateCount("hover") = 0
        /\ pc \in {"done", "aborted"}
        /\ pc = "done" =>
              /\ Len(files) = 1
              /\ DOMAIN files[1].snapshot.variables = {expression}
              /\ files[1].snapshot.variables[expression]
                    = JSONparse(fastIn.artifact[1]).val

\* C8 witness: {"a":1,"b":[1,2,3]} was captured by the fast path.
C8_Witness ==
    /\ FastPathSucceeds /\ pc = "done"
    /\ fastIn.artifact = <<A_object>>
    /\ files[1].snapshot.variables[expression].k = "map"

\* C9: whenever the fast-path evaluate ends without a decodable artifact
\* (rejected, no success reported, file missing, content malformed),
\* fastSerialize returns undefined and captureVariable goes on to the root
\* evaluate of the slow path without showing a message.
C9_FastFailureFallsBack ==
    [][(pc = "fast" /\ fastIn' # fastIn /\ ~Succeeds(fastIn')) =>
          /\ fast' = Undef
          /\ pc' = "hover"
          /\ errors' = errors
          /\ reqs' = Append(reqs, [cmd |-> "evaluate", context |-> "hover",
                                   frameId |-> frame.id, expression |-> expression])]_vars

\* C9 witness: the evaluate reported success over a malformed artifact and
\* the capture finished through the slow path without a message.
C9_Witness ==
    /\ fastIn.kind = "response"
    /\ fastIn.resp = <<T_ok>>
    /\ fastIn.artifact # <<>> /\ ~JSONparse(fastIn.artifact[1]).ok
    /\ fast = Undef /\ pc = "done" /\ errors = <<>>

Position(ctx) ==
    CHOOSE i \in 1..Len(reqs) : reqs[i].cmd = "evaluate" /\ reqs[i].context = ctx

\* C10: the fast-path evaluate is sent once and first; the root evaluate is
\* sent at most once and only after the fast path returned unavailable; the
\* walk starts, and a `variables` request is sent, only after the root
\* evaluate answered.
C10_FastPathFirst ==
    /\ EvaluateCount("repl") <= 1
    /\ EvaluateCount("hover") <= 1
    /\ pc = "fast" => EvaluateCount("repl") = 1 /\ EvaluateCount("hover") = 0
    /\ EvaluateCount("hover") = 1 =>
          /\ fast = Undef
          /\ EvaluateCount("repl") = 1
          /\ Position("repl") < Position("hover")
    /\ fast = Undef => EvaluateCount("hover") = 1
    /\ DOMAIN walk # {} =>
          /\ EvaluateCount("hover") = 1
          /\ heap # 0
          /\ pc \notin {"fast", "hover"}
    /\ pc = "hover" => DOMAIN walk = {} /\ heap = 0

\* C10 witness: a capture that fell back and fetched children.
C10_Witness ==
    /\ pc = "done" /\ fast = Undef
    /\ \E p \in DOMAIN walk : walk[p].sent

\* ------------------------------------------------- SerializeCounter claims

\* C11: for any sequence of addItems(n) and completeItem() calls on one
\* counter, the percentages given to the sink never go down.
C11_NonDecreasing ==
    \A i \in 1..(Len(emitted) - 1) : emitted[i] <= emitted[i + 1]

\* e is floor(completed / total * 100) capped at 99, stated without Pct.
IsPercentOf(e, c) ==
    \/ e = 99 /\ c.completed * 100 >= 99 * c.total
    \/ e < 99 /\ e * c.total <= c.completed * 100
              /\ c.completed * 100 < (e + 1) * c.total

EmissionsInRange ==
    /\ \A i \in 1..Len(emitted) : emitted[i] \in 0..99
    /\ \A i \in 1..(Len(emitted) - 1) : emitted[i] # emitted[i + 1]

\* What one call may add to the emissions.
EmissionStep ==
    /\ counter'.total = 0 => emitted' = emitted
    /\ (emitted # <<>> /\ IsPercentOf(emitted[Len(emitted)], counter'))
          => emitted' = emitted
    /\ emitted' # emitted =>
          /\ Len(emitted') = Len(emitted) + 1
          /\ SubSeq(emitted', 1, Len(emitted)) = emitted
          /\ IsPercentOf(emitted'[Len(emitted')], counter')

\* C12: every emitted percentage is an integer in 0..99 and differs from the
\* emission before it; a call whose percentage equals the last emitted one
\* emits nothing, and nothing is emitted while total is 0; what is emitted
\* is floor(completed / total * 100) capped at 99.
C12_EmissionRule == []EmissionsInRange /\ [][EmissionStep]_vars

\* All items done after at least two earlier emissions: the cap applies.
C12_Witness ==
    /\ Len(emitted) >= 3
    /\ emitted[Len(emitted)] = 99
    /\ counter.total >= 2
    /\ counter.completed = counter.total

\* ------------------------------------------------- captureVariable claims

\* The value the capture produced: the fast path's, else the root call's.
ProducedValue == IF fast \notin {NoVal, Undef} THEN fast ELSE walk[<<>>].res

\* C13: a capture writes a snapshot file at most once, and only when it
\* produced a value and ends done; a capture that ends aborted (or rejected)
\* has written no file.
C13_WritesOnlyWhenDone ==
    /\ Len(files) <= 1
    /\ files # <<>> =>
          /\ pc = "done"
          /\ ValueProduced
          /\ files[1].snapshot.variables[expression] = ProducedValue
    /\ pc \in {"aborted", "rejected"} => files = <<>>
    /\ pc = "done" => Len(files) = 1

\* The root evaluate failed after three answered calls: nothing was written.
C13_Witness ==
    /\ pc = "aborted"
    /\ Len(reqs) = 4
    /\ errors # <<>>
    /\ files = <<>>

PreconditionTexts ==
    {MsgNoSession.text, MsgSelect.text, "is not a valid expression"}

\* C14: an expression that is empty after trimming, starts with '[' or '{'
\* or contains a line break is rejected with a message and without any
\* protocol call: a capture that sent a request has a trimmed, non-empty
\* expression with no such opening character and no line break, and a
\* capture that left the idle state without sending one is aborted, has
\* shown exactly one message (naming the rejected text) and wrote nothing.
C14_RejectedBeforeAnyCall ==
    /\ reqs # <<>> =>
          /\ expression # <<>>
          /\ expression = Trim(expression)
          /\ Head(expression) \notin {"[", "{"}
          /\ \A i \in 1..Len(expression) : expression[i] # "\n"
    /\ (pc # "idle" /\ reqs = <<>>) =>
          /\ pc = "aborted"
          /\ Len(errors) = 1
          /\ errors[1].text \in PreconditionTexts
          /\ errors[1].text = "is not a valid expression" =>
                \/ Head(errors[1].expr) \in {"[", "{"}
                \/ \E i \in 1..Len(errors[1].expr) : errors[1].expr[i] = "\n"
          /\ files = <<>> /\ walk = <<>>
    /\ \A i \in 1..Len(errors) :
          errors[i].text \in PreconditionTexts => reqs = <<>>

\* A selection spanning two lines was rejected.
C14_Witness ==
    /\ pc = "aborted"
    /\ errors = <<MsgInvalid(<<"a", "\n", "b">>)>>
    /\ reqs = <<>>

\* The serializeVariable calls of walk w whose `variables` request was sent.
SentIn(w) == {p \in DOMAIN w : w[p].sent}

\* The calls of a capture in the order the code makes them, for the thread
\* and frame lists the adapter answers with.
ExpectedCalls ==
    << [cmd |-> "threads"],
       [cmd |-> "stackTrace", threadId |-> ThreadList[1].id],
       [cmd |-> "evaluate", context |-> "repl", frameId |-> FrameList[1].id],
       [expression |-> expression, cmd |-> "evaluate", context |-> "hover",
        frameId |-> FrameList[1].id] >>

CallsInOrder ==
    /\ Len(reqs) <= 4
    /\ reqs = SubSeq(ExpectedCalls, 1, Len(reqs))
    /\ Len(reqs) >= 3 => frame = FrameList[1]
    /\ pc = "threads" => Len(reqs) = 1
    /\ pc = "stackTrace" => Len(reqs) = 2
    /\ walk # <<>> => Len(reqs) = 4
    /\ SentIn(walk) # {} => ~hung

\* A call is sent only by the step that handles the answer to the one
\* before it, and none is sent once the capture aborted.
CallsStep ==
    /\ Len(reqs') <= Len(reqs) + 1
    /\ (hung /\ pc \in {"threads", "stackTrace", "hover"}) =>
          (reqs' = reqs /\ SentIn(walk') = SentIn(walk))
    /\ pc = "aborted" => (reqs' = reqs /\ SentIn(walk') = SentIn(walk))
    /\ (pc' = "aborted" /\ pc # "walk") => (reqs' = reqs /\ SentIn(walk') = SentIn(walk))

\* C15: the calls occur in the order threads, stackTrace for the first
\* thread's id, evaluate with the top frame's id; each is sent only after
\* the one before it answered with a non-empty list, threads and stackTrace
\* are sent at most once, and after an abort no further call is sent.
C15_SetupSequence == []CallsInOrder /\ [][CallsStep]_vars

\* stackTrace timed out after threads had answered: two calls, no third.
C15_Witness ==
    /\ pc = "aborted"
    /\ Len(reqs) = 2
    /\ hung
    /\ errors = <<MsgTimeout("stack trace")>>

\* ----------------------------------------------------------- walk claims

\* The serializeVariable calls whose `variables` request was answered and
\* whose value has been assembled.
Expanded == {p \in DOMAIN walk : walk[p].sent /\ walk[p].st = "done"}

\* The list of children node p was answered with: that of its reference,
\* or none when the response had no body.
ReturnedTo(p) ==
    LET L == Children(heap, walk[p].var.variablesReference)
    IN  IF walk[p].n = 0 /\ \E i \in 1..Len(L) : ~StartsWith(L[i].name, <<"[", "[">>)
        THEN <<>> ELSE L

OnlyDigitNames(L) ==
    L # <<>> /\ \A i \in 1..Len(L) : \A j \in 1..Len(L[i].name) : IsDigit(L[i].name[j])

\* C16: a composite yields an ordered sequence (one element per child, in
\* the order returned) if and only if its list of children is non-empty and
\* every name is made of decimal digits only; otherwise it yields a mapping
\* from each child name not starting with "[[" to that child's value.
C16_ArrayLikeIffDigitNames ==
    \A p \in Expanded :
        LET L == ReturnedTo(p)
            res == walk[p].res
        IN  /\ res.k \in {"seq", "map"}
            /\ res.k = "seq" <=> OnlyDigitNames(L)
            /\ res.k = "seq" =>
                  /\ Len(res.items) = Len(L)
                  /\ \A i \in 1..Len(L) :
                        /\ walk[Kid(p, i)].var = L[i]
                        /\ res.items[i] = walk[Kid(p, i)].res
            /\ res.k = "map" =>
                  /\ DOMAIN res.at =
                        {L[i].name : i \in {j \in 1..Len(L) :
                                              ~StartsWith(L[j].name, <<"[", "[">>)}}
                  /\ \A i \in 1..walk[p].n :
                        res.at[walk[Kid(p, i)].var.name] = walk[Kid(p, i)].res

\* Children named "0", "foo", "[[Prototype]]" and "e" gave a mapping of
\* three entries, and the empty list of "e" an empty mapping.
C16_Witness ==
    /\ heap = 4
    /\ <<>> \in Expanded
    /\ walk[<<>>].res.k = "map"
    /\ DOMAIN walk[<<>>].res.at = {<<"0">>, <<"f", "o", "o">>, <<"e">>}
    /\ walk[<<>>].res.at[<<"e">>] = MapV(<<>>)

\* ------------------------------------------------- Snapshots view claims

\* The second the snapshot file named f was captured in.
CapturedAt(f) == dir[CHOOSE i \in 1..Len(dir) : dir[i].name = f].t
SnapshotNames == {dir[i].name : i \in {j \in 1..Len(dir) : dir[j].t # 0}}

ListedNewestFirst ==
    \A i, j \in 1..Len(listing) : i < j => CapturedAt(listing[i]) > CapturedAt(listing[j])

\* C17: getChildren lists every .json file of the snapshots directory, and
\* lists them in order of capture time, newest first.
C17_NewestFirst ==
    /\ []ListedNewestFirst
    /\ [][listing' # listing =>
            {listing'[i] : i \in 1..Len(listing')} = SnapshotNames]_vars

\* ---------------------------------------------------- inline stub claims

HasMarker(d) ==
    \E i \in 1..Len(d) : \E j \in 1..Len(d[i]) :
        <<d[i][j]>> \in {MARKER_START, MARKER_END}

\* C18: after one or more successful applyInlineStub calls on a source file
\* followed by removeAllInlineStubs, the file holds no stub marker and its
\* lines are those it had before the first stub was applied.
C18_RevertRestores ==
    (reverted /\ stubs >= 1) => (~HasMarker(doc) /\ doc = orig)

\* ---------------------------------------------------- cancellation claims

\* C19 as stated: once cancellation is requested no further `variables`
\* request is dispatched, and every call made from then on yields
\* "[cancelled]".
C19_NoDispatchAfterCancel ==
    [][cancelled =>
         /\ SentIn(walk') = SentIn(walk)
         /\ \A p \in DOMAIN walk' \ DOMAIN walk : walk'[p].res = Str(T_cancelled)]_vars

\* C19 (amended): once cancellation is requested, every serializeVariable
\* call that starts yields "[cancelled]" without a request; a request is
\* still dispatched for a call that was already waiting for a gate slot when
\* it is handed one, and for no other; dispatched requests stay dispatched.
C19_OnlyQueuedDispatchAfterCancel ==
    [][cancelled =>
         /\ \A p \in DOMAIN walk' \ DOMAIN walk :
               /\ walk'[p].res = Str(T_cancelled)
               /\ ~walk'[p].sent
               /\ walk'[p].st \in {"ready", "done"}
         /\ SentIn(walk') \ SentIn(walk) \subseteq WalkQueued
         /\ SentIn(walk) \subseteq SentIn(walk')
         /\ \A p \in WalkQueued : walk'[p].st \in {"queued", "inflight"}]_vars

\* After the cancellation a child came back "[cancelled]" while another
\* call was still waiting for a slot.
C19_Witness ==
    /\ cancelled
    /\ WalkQueued # {}
    /\ \E p \in DOMAIN walk :
          /\ p # <<>>
          /\ walk[p].res = Str(T_cancelled)
          /\ walk[Parent(p)].sent

\* Variables a call may be made for: a number, an object with a type tag,
\* an object without one.
ProbeVars == {NumVar(<<"n">>, "1"), ObjVar(<<"o">>, 1), BareVar(<<"b">>, 2)}

\* The outcome of a serializeVariable call made in the current state for
\* variable var at the given depth, under a path no call has used.
Called(var, depth) ==
    serializeVariable([walk |-> walk, sem |-> sem, counter |-> counter,
                       progress |-> progress, emitted |-> emitted],
                      <<0>>, var, depth)

\* C20: a serializeVariable call that starts after cancellation was requested
\* resolves at once with "[cancelled]", for primitives and composites alike
\* and at any depth, and leaves the gate, the progress counter, the progress
\* sink and every other call as they were; no request is ever sent for a
\* call that yielded the sentinel.
C20_CancelledCallIsInert ==
    /\ cancelled =>
          \A var \in ProbeVars, depth \in 0..(MaxDepthSetting + 1) :
              LET S1 == Called(var, depth)
              IN  /\ S1.walk[<<0>>] = Node(var, depth, "ready", Str(T_cancelled), FALSE)
                  /\ S1.sem = sem
                  /\ S1.counter = counter
                  /\ S1.progress = progress
                  /\ S1.emitted = emitted
                  /\ DOMAIN S1.walk = DOMAIN walk \cup {<<0>>}
                  /\ \A q \in DOMAIN walk : S1.walk[q] = walk[q]
    /\ \A p \in DOMAIN walk :
          walk[p].res = Str(T_cancelled) =>
              /\ cancelled
              /\ ~walk[p].sent
              /\ walk[p].st \in {"ready", "done"}
              /\ walk[p].n = 0

\* A composite above the depth limit came back "[cancelled]" while the gate
\* had a free slot.
C20_Witness ==
    /\ cancelled
    /\ sem.active < sem.limit
    /\ \E p \in DOMAIN walk :
          /\ walk[p].res = Str(T_cancelled)
          /\ walk[p].var.variablesReference # 0
          /\ walk[p].depth < maxDepth

\* ------------------------------------------------ the gate, further claims

\* The callers whose task settled in this step, and how.
Settling(how) == {c \in Callers : cst[c] = "running" /\ cst'[c] = how}

\* The slot of the settling task is given back once: with nobody queued the
\* active count drops by one, otherwise the slot passes to the head of the
\* queue, which is admitted.
GivesSlotBack ==
    IF Queued = {}
    THEN /\ sem'.active = sem.active - 1
         /\ \A d \in Callers : cst'[d] = "admitted" => cst[d] = "admitted"
    ELSE /\ sem'.active = sem.active
         /\ sem'.queue = Tail(sem.queue)
         /\ cst'[Head(sem.queue)] = "admitted"

\* Every slot counted by the gate belongs to a task admitted and not settled.
SlotsMatchTasks == sem.active = Cardinality(Holding)

\* C21: a task admitted by run gives its slot back exactly once when it
\* settles, whether it resolved or rejected: the active count always equals
\* the number of admitted, unsettled tasks; a failing task frees the slot and
\* admits the next queued caller; with no task admitted or queued the active
\* count is 0.
C21_SlotReleasedOnce ==
    /\ []SlotsMatchTasks
    /\ [][\A how \in {"resolved", "rejected"} :
             Settling(how) # {} => GivesSlotBack]_vars
    /\ []((Holding = {} /\ Queued = {}) => sem.active = 0)

\* C21 witness: a task failed while a caller was queued at a full gate, every
\* caller has since settled, and the gate is empty again.
C21_Witness ==
    /\ \E c \in Callers : cst[c] = "rejected"
    /\ Len(started) > sem.limit
    /\ \A c \in Callers : cst[c] \in {"resolved", "rejected"}
    /\ sem.active = 0

\* C26: a caller waits in the queue only while the gate is full (active =
\* limit), the queue holds exactly the callers waiting, and the active count
\* is never negative.
C26_QueuedOnlyWhenFull ==
    /\ sem.queue # <<>> => sem.active = sem.limit
    /\ {sem.queue[i] : i \in 1..Len(sem.queue)} = Queued
    /\ sem.active >= 0

\* C26 witness: a slot has been handed to a queued caller after a task
\* resolved, and another caller is still waiting at the full gate.
C26_Witness ==
    /\ sem.queue # <<>>
    /\ sem.active = sem.limit
    /\ Len(started) > sem.limit
    /\ \E c \in Callers : cst[c] = "resolved"

\* How many times the task of caller c was started.
StartCount(c) == Cardinality({i \in 1..Len(started) : started[i] = c})

\* C27: when every started task settles, every run(task) call is admitted
\* and its task started, exactly once; the gate cannot deadlock: callers
\* wait only while some admitted task still holds a slot, also when run is
\* called while earlier tasks are running or have settled.
C27_EveryCallStarts ==
    /\ \A c \in Callers : (cst[c] # "idle") ~> (StartCount(c) = 1)
    /\ [](\A c \in Callers : StartCount(c) <= 1)
    /\ [](\A c \in Callers : StartCount(c) = 1 <=>
                                 cst[c] \in {"running", "resolved", "rejected"})
    /\ [](Queued # {} => Holding # {})

\* C27 witness: more callers than the gate has slots have called run; the
\* task of each has been started once and has settled.
C27_Witness ==
    /\ \A c \in Callers : StartCount(c) = 1 /\ cst[c] \in {"resolved", "rejected"}
    /\ MaxCallers > sem.limit
    /\ sem.active = 0
    /\ sem.queue = <<>>

\* ------------------------------------------------ the walk, further claims

\* The original reading: depth 0 at the children of the requested expression.
\* C22 (as stated): the children of the root are walked with depth 0 and a
\* node k levels below them with depth k.
C22_DepthFromChildren ==
    \A p \in DOMAIN walk : Len(p) >= 1 => walk[p].depth = Len(p) - 1

\* C22 (amended): depth is counted from 0 at the requested expression itself:
\* the root is walked with depth 0 and a node k levels below the root with
\* depth k, so a `variables` request is sent only for nodes fewer than
\* maxDepth levels below the root, and an expandable node maxDepth or more
\* levels below it is never requested.
C22_DepthFromRoot ==
    \A p \in DOMAIN walk :
        /\ walk[p].depth = Len(p)
        /\ walk[p].sent => Len(p) < maxDepth
        /\ (walk[p].var.variablesReference # 0 /\ Len(p) >= maxDepth) =>
              /\ ~walk[p].sent
              /\ walk[p].st = "done"
              /\ walk[p].res \in {Str(T_cancelled), Unresolved(walk[p].var.type)}

\* C22 witness: with maxDepth 1 an expandable child of the root came back as
\* the unresolved sentinel and the capture ended with a value.
C22_Witness ==
    /\ maxDepth = 1
    /\ pc = "done"
    /\ \E p \in DOMAIN walk :
          /\ Len(p) = 1
          /\ walk[p].var.variablesReference # 0
          /\ walk[p].res = Unresolved(walk[p].var.type)

\* Node q's `variables` request settled before node r's.
AnsweredBefore(q, r) ==
    \E i, j \in 1..Len(answered) : i < j /\ answered[i] = q /\ answered[j] = r

\* C23: the sequence produced for an array-like composite has one element per
\* returned child, and element i is the walked value of the i-th child in the
\* order the protocol returned the children, whatever the order in which the
\* children's own requests were admitted and answered.
C23_SequenceInProtocolOrder ==
    \A p \in Expanded :
        walk[p].arr =>
            LET L == Children(heap, walk[p].var.variablesReference)
            IN  /\ walk[p].res.k = "seq"
                /\ walk[p].n = Len(L)
                /\ Len(walk[p].res.items) = Len(L)
                /\ \A i \in 1..Len(L) :
                      /\ walk[Kid(p, i)].var = L[i]
                      /\ walk[Kid(p, i)].st = "done"
                      /\ walk[p].res.items[i] = walk[Kid(p, i)].res

\* C23 witness: the array of four objects was assembled after its second
\* element's request had been answered before its first's and its fourth's
\* before its third's; the four elements differ from each other.
C23_Witness ==
    /\ heap = 2
    /\ <<>> \in Expanded
    /\ walk[<<>>].arr
    /\ AnsweredBefore(<<2>>, <<1>>)
    /\ AnsweredBefore(<<4>>, <<3>>)
    /\ \A i, j \in 1..4 : i # j => walk[<<>>].res.items[i] # walk[<<>>].res.items[j]
    /\ \A i \in 1..4 : walk[<<>>].res.items[i].k = "map"

\* The expandable nodes of the object graph unrolled from var that lie fewer
\* than md - d levels below it, var included.
RECURSIVE ExpandableWithin(_, _, _, _)
ExpandableWithin(h, var, d, md) ==
    IF var.variablesReference = 0 \/ d >= md THEN 0
    ELSE LET L == Children(h, var.variablesReference)
             sum[i \in 0..Len(L)] ==
                 IF i = 0 THEN 0
                 ELSE sum[i - 1] + ExpandableWithin(h, L[i], d + 1, md)
         IN  1 + sum[Len(L)]

\* As ExpandableWithin, without what lies below an internal "[[...]]" slot.
RECURSIVE WalkedWithin(_, _, _, _)
WalkedWithin(h, var, d, md) ==
    IF var.variablesReference = 0 \/ d >= md THEN 0
    ELSE LET L == SelectSeq(Children(h, var.variablesReference), NotInternal)
             sum[i \in 0..Len(L)] ==
                 IF i = 0 THEN 0
                 ELSE sum[i - 1] + WalkedWithin(h, L[i], d + 1, md)
         IN  1 + sum[Len(L)]

\* Number of levels of sequences and mappings in a value.
RECURSIVE Height(_)
Height(v) ==
    LET Max(S) == IF S = {} THEN 0 ELSE CHOOSE x \in S : \A y \in S : y <= x
    IN  CASE v.k = "seq" -> 1 + Max({Height(v.items[i]) : i \in 1..Len(v.items)})
          [] v.k = "map" -> 1 + Max({Height(v.at[n]) : n \in DOMAIN v.at})
          [] OTHER -> 0

Sent == {p \in DOMAIN walk : walk[p].sent}

\* The walk sends at most one request per expandable node fewer than maxDepth
\* levels below the root, and its value is no higher than maxDepth.
WalkBounded ==
    DOMAIN walk # {} =>
        /\ \A p \in DOMAIN walk : Len(p) <= maxDepth
        /\ \A p \in Sent : Len(p) < maxDepth /\ walk[p].var.variablesReference # 0
        /\ Cardinality(Sent) <= ExpandableWithin(heap, walk[<<>>].var, 0, maxDepth)
        /\ (pc = "done" /\ AnsweredWithChildren) =>
              Cardinality(Sent) = WalkedWithin(heap, walk[<<>>].var, 0, maxDepth)
        /\ pc = "done" => Height(walk[<<>>].res) <= maxDepth

\* C24: whatever the object graph, reference cycles included, when every
\* `variables` request is answered the walk ends; its value is a finite tree
\* no higher than maxDepth; it sends at most one request per expandable node
\* reachable fewer than maxDepth levels below the root, and exactly one per
\* such node outside internal slots when it runs to the end undisturbed.
C24_WalkTerminates ==
    /\ []WalkBounded
    /\ (pc = "walk") ~> (pc # "walk")

\* C24 witness: the object that refers to itself was walked to the end with
\* the largest depth limit: one request per level, the innermost self
\* reference cut off by the unresolved sentinel.
C24_Witness ==
    /\ heap = 5
    /\ maxDepth = MaxDepthSetting
    /\ pc = "done"
    /\ Cardinality(Sent) = MaxDepthSetting
    /\ Sent = {p \in DOMAIN walk : Len(p) < maxDepth /\ \A i \in 1..Len(p) : p[i] = 1}
    /\ Height(walk[<<>>].res) = maxDepth
    /\ \E p \in DOMAIN walk :
          Len(p) = maxDepth /\ walk[p].res = Unresolved(<<T_Object>>)

\* ------------------------------------------------ parsePrimitiveValue claims

\* The reference decoder, rule by rule as the specification words it.
\* A signed integer or decimal: an optional "-", digits, and optionally a
\* "." followed by digits.
RECURSIVE DigitRun(_, _)
DigitRun(t, i) == IF i <= Len(t) /\ IsDigit(t[i]) THEN DigitRun(t, i + 1) ELSE i
SignedDecimal(t) ==
    LET s == IF Len(t) >= 1 /\ t[1] = "-" THEN 2 ELSE 1
        e == DigitRun(t, s)
    IN  /\ e > s
        /\ \/ e = Len(t) + 1
           \/ /\ e <= Len(t)
              /\ t[e] = "."
              /\ DigitRun(t, e + 1) > e + 1
              /\ DigitRun(t, e + 1) = Len(t) + 1

\* The text is wrapped in a pair of quotes q.
Wrapped(t, q) == Len(t) >= 2 /\ t[1] = q /\ t[Len(t)] = q
Unwrapped(t) == [i \in 1..(Len(t) - 2) |-> t[i + 1]]

RefDecode(raw, type) ==
    LET asNumber ==
            IF type = <<T_number>> \/ (type = <<>> /\ SignedDecimal(raw))
            THEN ToNumber(raw) ELSE <<>>
    IN  CASE raw = T_undefined -> Undef
          [] raw = T_null -> Null
          [] raw = T_true -> Bool(TRUE)
          [] raw = T_false -> Bool(FALSE)
          [] OTHER ->
                IF asNumber # <<>> THEN asNumber[1]
                ELSE IF Wrapped(raw, "\"") \/ Wrapped(raw, "'") THEN Str(Unwrapped(raw))
                ELSE Str(raw)

\* parsePrimitiveValue has been called.
Decoded == prim.out # NoVal

\* C25: parsePrimitiveValue returns what the reference decoder returns, for
\* every text and type tag: the four keywords give undefined, null and the
\* booleans; a numeric tag, or no tag and a signed integer or decimal, gives
\* the parsed number unless it is not-a-number; a text wrapped in matching
\* quotes gives the text without the two quotes; any other text is returned
\* verbatim.
C25_EqualsReference ==
    Decoded => prim.out = RefDecode(prim.raw, prim.type)

\* A text that is one quote character and nothing else.
LoneQuote(t) == t \in {<<"\"">>, <<"'">>}

\* The two decoders agree on every text but the lone quote character, for
\* which parsePrimitiveValue returns the empty text.
AgreesButOnLoneQuote ==
    Decoded =>
        IF LoneQuote(prim.raw)
        THEN prim.out = Str(<<>>) /\ RefDecode(prim.raw, prim.type) = Str(prim.raw)
        ELSE prim.out = RefDecode(prim.raw, prim.type)

\* The serializeVariable calls made for children, and those of them whose
\* result the parent's map callback has received.
ChildCalls == DOMAIN walk \ {<<>>}
ChildCallsDone == {p \in ChildCalls : walk[p].st = "done"}
NoFailedRequest == \A p \in DOMAIN walk : walk[p].st # "failed"

\* C28: in every state of a slow-path walk completed <= total: total counts
\* the children recursed into so far, each registered before its call was
\* made, and completed those whose call has resolved; when the walk finishes
\* without a failed request completed = total = the number of children
\* recursed into, none of which is a "[[" child of a mapping.
C28_CompletedWithinTotal ==
    /\ counter.completed <= counter.total
    /\ counter.total = Cardinality(ChildCalls)
    /\ counter.completed = Cardinality(ChildCallsDone)
    /\ (DOMAIN walk # {} /\ walk[<<>>].st = "done" /\ NoFailedRequest) =>
          /\ counter.completed = counter.total
          /\ ChildCallsDone = ChildCalls
    /\ \A p \in ChildCalls : ~walk[Parent(p)].arr => NotInternal(walk[p].var)

\* C28 witness: the object with children "0", "foo", "[[Prototype]]" and "e"
\* was walked to the end: three children counted and completed, the internal
\* slot left out.
C28_Witness ==
    /\ heap = 4
    /\ pc = "done"
    /\ Len(Children(heap, walk[<<>>].var.variablesReference)) = 4
    /\ counter.total = 3
    /\ counter.completed = 3

====
